---- MODULE Spec2Model ----
(***************************************************************************)
(* Crate Bunker: the contact form with its offline outbox, the send-once   *)
(* lock, the queue flusher and the mail endpoint.                          *)
(*                                                                         *)
(* Spec   : the ContactForm of src/app/ping/route.tsx (lines 462-850, the  *)
(*          build with the one hour lockout) running in one page against   *)
(*          the POST handler of src/app/api/contact/route.ts.              *)
(* SpecClock : the same page without a backlog, over the hours.            *)
(* SpecCF : the ContactForm of src/components/ContactForm.tsx (cooldown    *)
(*          computed from a ticking `now`) against the same handler.       *)
(* SpecCQ : the form of src/components/ContactFormQueued.tsx.              *)
(* SpecStore : the outbox functions on what localStorage can hold.         *)
(* SpecProbe : the connectivity probe isOnline, request by request.        *)
(* SpecSW : the service worker, src/public/sw.js and its older version.    *)
(* SpecServer : the POST handlers of the mail endpoint, one call at a time. *)
(* SpecBanner : src/components/Banner.tsx with its timers.                 *)
(* SpecDrain, SpecQueued : the flusher of route.tsx under fair triggers,   *)
(*          in an environment that settles.                                *)
(*                                                                         *)
(* Strings are sequences of one-character strings.  Asynchronous functions *)
(* are cut at their awaits: one action per stretch of code that runs       *)
(* without yielding.                                                       *)
(***************************************************************************)
EXTENDS Integers, Sequences, FiniteSets, TLC

(***************************************************************************)
(* Bounds of the model.                                                    *)
(***************************************************************************)
\* submissions the user makes in one behaviour
MaxSubmits == 1
\* submissions already queued, by earlier visits, when the page loads
MaxBacklog == 3
\* submissions the user makes to the form of components/ContactForm.tsx
MaxCFSubmits == 2
\* flush invocations that can be suspended at an await at the same time
MaxFlush == 2
\* hours of wall-clock time covered by the clock
MaxHours == 1

(***************************************************************************)
(* Program constants.                                                      *)
(***************************************************************************)
SENT_LOCK_HOURS == 1
MS_PER_HOUR == 3600 * 1000
COOLDOWN_MS == 60 * 60 * 1000
TICK_MS == 15000
MAX_NAME_LEN == 120
MAX_EMAIL_LEN == 254
MIN_MESSAGE_LEN == 2
MAX_MESSAGE_LEN == 4000

(***************************************************************************)
(* Strings.                                                                *)
(***************************************************************************)
EmptyStr == << >>
ControlChars == {"\t", "\n"}
WhiteSpace == {" ", "\t", "\n"}

\* String.prototype.trim
RECURSIVE TrimLeft(_)
TrimLeft(s) ==
    IF s # << >> /\ Head(s) \in WhiteSpace THEN TrimLeft(Tail(s)) ELSE s

RECURSIVE TrimRight(_)
TrimRight(s) ==
    IF s # << >> /\ s[Len(s)] \in WhiteSpace
    THEN TrimRight(SubSeq(s, 1, Len(s) - 1))
    ELSE s

trim(s) == TrimRight(TrimLeft(s))

\* s.replace(/[\u0000-\u001F\u007F]/g, '').trim()
sanitize(s) == trim(SelectSeq(s, LAMBDA c : c \notin ControlChars))

\* /.+@.+\..+/.test(e): somewhere a character, "@", a character, ".", a
\* character, where "." of the pattern matches anything but a line break
isEmail(e) ==
    \E i, j \in 1..Len(e) :
        /\ e[i] = "@"
        /\ e[j] = "."
        /\ i + 1 < j
        /\ i > 1
        /\ e[i - 1] # "\n"
        /\ \A k \in (i + 1)..(j - 1) : e[k] # "\n"
        /\ j < Len(e)
        /\ e[j + 1] # "\n"

\* a || b on strings: the empty string is falsy
OrElse(a, b) == IF a # EmptyStr THEN a ELSE b

(***************************************************************************)
(* What the user can have in the form's fields.                            *)
(***************************************************************************)
Ann == <<"A", "n", "n">>
Anonymous == <<"A", "n", "o", "n", "y", "m", "o", "u", "s">>
AnnMail == <<"a", "@", "b", ".", "c", "o">>
HiThere == <<"H", "i">>
BotSite == <<"x">>

EmptyForm == [name |-> EmptyStr, email |-> EmptyStr, message |-> EmptyStr, website |-> EmptyStr]
ValidPayload == [name |-> Ann, email |-> AnnMail, message |-> HiThere, website |-> EmptyStr]
BotPayload == [name |-> Ann, email |-> AnnMail, message |-> HiThere, website |-> BotSite]

Payloads == {ValidPayload, BotPayload, EmptyForm}

\* no item: the `undefined` of dequeue() on an empty queue
NoItem ==
    [id |-> 0, name |-> EmptyStr, email |-> EmptyStr, message |-> EmptyStr,
     website |-> EmptyStr, ts |-> 0]

(***************************************************************************)
(* The clock: the instants Date.now() can return, around the hour marks.   *)
(***************************************************************************)
\* Date.now() when the page is first loaded
Epoch == 2 * MS_PER_HOUR

TimePoints ==
    {Epoch} \cup {Epoch + h * MS_PER_HOUR + d : h \in 1..MaxHours, d \in {-1, 0}}

(***************************************************************************)
(* The mail endpoint: POST of src/app/api/contact/route.ts.                *)
(***************************************************************************)
\* what resend.emails.send does: returns no error, returns an error, throws;
\* "nokey" is a deployment without RESEND_API_KEY
ProviderOutcomes == {"sent", "error", "throws", "nokey"}

\* export async function POST(req): the status of the response, the flag of
\* its redirect and whether the provider accepted the mail
POST(raw, prov) ==
    LET name == sanitize(OrElse(raw.name, Anonymous))
        email == sanitize(OrElse(raw.email, EmptyStr))
        message == sanitize(OrElse(raw.message, EmptyStr))
        website == trim(OrElse(raw.website, EmptyStr))
        bad == [status |-> 400, flag |-> "none", mailed |-> FALSE]
    IN  IF website # EmptyStr THEN bad
        ELSE IF name = EmptyStr \/ Len(name) > MAX_NAME_LEN THEN bad
        ELSE IF ~isEmail(email) \/ Len(email) > MAX_EMAIL_LEN THEN bad
        ELSE IF message = EmptyStr \/ Len(message) < MIN_MESSAGE_LEN
                    \/ Len(message) > MAX_MESSAGE_LEN THEN bad
        ELSE IF prov = "nokey" THEN [status |-> 500, flag |-> "none", mailed |-> FALSE]
        ELSE IF prov = "throws" THEN [status |-> 303, flag |-> "error", mailed |-> FALSE]
        ELSE IF prov = "error" THEN [status |-> 303, flag |-> "error", mailed |-> FALSE]
        ELSE [status |-> 303, flag |-> "sent", mailed |-> TRUE]

\* export async function GET(): the empty 204 a followed redirect ends at
GET == [status |-> 204, flag |-> "none", mailed |-> FALSE]

\* Response.ok
ResOk(status) == status >= 200 /\ status <= 299

\* what can happen to a request on the wire: it never reaches the server,
\* the server handles it and the response is lost, or both legs arrive
NetOutcomes == {"reqfail", "respfail", "fine"}

\* fetch("/api/contact", { method: "POST", body: fd }): redirects are
\* followed, so a 303 ends at the GET handler.  res is "ok" for res.ok,
\* "notok" for a response with !res.ok and "throw" for a rejected fetch.
FetchFollow(p, net, prov) ==
    IF net = "reqfail" THEN [res |-> "throw", mailed |-> FALSE, flag |-> "none"]
    ELSE LET r == POST(p, prov)
             final == IF r.status = 303 THEN GET.status ELSE r.status
         IN  IF net = "respfail"
             THEN [res |-> "throw", mailed |-> r.mailed, flag |-> r.flag]
             ELSE [res |-> IF ResOk(final) THEN "ok" ELSE "notok",
                   mailed |-> r.mailed, flag |-> r.flag]

\* the ways a POST of p can settle
FetchResults(p) ==
    {FetchFollow(p, net, prov) : net \in NetOutcomes, prov \in ProviderOutcomes}

\* FetchResults, tabulated over the form data of the model
FetchTable == [p \in Payloads |-> FetchResults(p)]

(***************************************************************************)
(* State.                                                                  *)
(***************************************************************************)
VARIABLES
    now,        \* Date.now()
    navOnLine,  \* navigator.onLine
    outbox,     \* localStorage["cb:contact-outbox"], parsed
    sentLock,   \* localStorage["cb:sentOnce"], parsed: NoLock or [ts |-> t]
    url,        \* the flags in the query string of window.location
    timers,     \* pending clearQuerySoon timeouts
    sentOnce,   \* useState: the one-and-done lock of the mounted form
    sending,    \* useState: a direct submission is in flight
    form,       \* the content of the form's fields
    running,    \* the `running` flag of the flush effect's closure
    fl,         \* the flush invocations: where each is suspended, its locals
    sub,        \* the onSubmit invocation: where it is suspended, its locals
    lastSent,   \* localStorage["cb:contact-last-sent"] as a number, 0 if absent
    nowState,   \* ContactForm.tsx useState: `now`, refreshed every 15 s
    remaining,  \* ContactForm.tsx useMemo: cooldownRemaining
    cf,         \* ContactForm.tsx onSubmit: where it is suspended, its locals
    nextId,     \* history: the number of the next submission
    submits,    \* history: submissions made since the page was first loaded
    mailed,     \* history: submissions the mail provider accepted
    store,      \* localStorage["cb:contact-outbox"] as stored, not yet parsed
    cq,         \* ContactFormQueued.tsx: its React state and suspended calls
    call,       \* the last call of an outbox function on `store`, and how it ended
    probe,      \* the last run of isOnline(): what it met and what it did
    sw,         \* the service worker: the last fetch event and how it was routed
    caches,     \* CacheStorage: the cache stores by name and what each holds
    worker,     \* the service worker's lifecycle and where its listeners stand
    resp,       \* the service worker: what the last fetch event was answered with
    srv,        \* api/contact/route.ts: the last POST and how it ended
    banner,     \* Banner.tsx: its React state, its timers and the query string
    env         \* the network and the endpoint: "any", or "good" once they stay up

vars == <<now, navOnLine, outbox, sentLock, url, timers, sentOnce, sending,
          form, running, fl, sub, lastSent, nowState, remaining, cf, nextId,
          submits, mailed, store, cq, call, probe, sw, caches, worker, resp,
          srv, banner, env>>

\* the service worker's own state, the server's and the banner's
swVars == <<caches, worker, resp>>
extVars == <<swVars, srv, banner, env>>

\* the state of the components that are not mounted in the page at hand
auxVars == <<store, cq, call, probe, sw, extVars>>

\* the state of the form of components/ContactForm.tsx
cfVars == <<lastSent, nowState, remaining, cf>>

NoLock == [ts |-> 0]
UrlFlags == {"sent", "error", "queued", "compact", "already"}
FlushIds == 1..MaxFlush
\* a flush invocation: where it is suspended, the item it posts and anySent;
\* empty0 tells, up to its first delivery attempt, that the outbox was empty
\* when it was invoked, and probed is the answer of the probe that its
\* delivery attempt followed (both are history)
IdleFlush == [pc |-> "idle", next |-> NoItem, anySent |-> FALSE,
              empty0 |-> FALSE, probed |-> "none"]
IdleSubmit == [pc |-> "idle", fd |-> EmptyForm, id |-> 0]

(***************************************************************************)
(* The outbox (route.tsx 485-512) and the probe (531-550).                 *)
(***************************************************************************)
readOutbox == outbox
\* a writer that stores the new item alone, as setItem(OUTBOX_KEY, [item])
enqueueOverwrite(q, item) == <<item>>
enqueue(q, item) == Append(q, item)
\* q.shift(): the item taken, NoItem for undefined, and the list written back
dequeue(q) ==
    IF q = << >> THEN [item |-> NoItem, rest |-> << >>]
    ELSE [item |-> Head(q), rest |-> Tail(q)]
hasOutbox(q) == Len(q) > 0

\* flush() suspended at its first await (603-604)
Invoked == [IdleFlush EXCEPT !.pc = "probe0", !.empty0 = ~hasOutbox(readOutbox)]

\* a probe that does not consult navigator.onLine
isOnlineUnflagged(onLine, ping, root) == ping \/ root
\* isOnline(): false at once when navigator.onLine is false; otherwise true
\* when the ping request or, after it failed, the root request got a response
isOnline(onLine, ping, root) == IF ~onLine THEN FALSE ELSE ping \/ root

\* the answers a probe can give now, over what its two requests can meet
ProbeResults == {isOnline(navOnLine, ping, root) : ping, root \in BOOLEAN}

\* the outbox item built from the form data (route.tsx 687-693)
OutboxItem(id, fd, t) ==
    [id |-> id, name |-> fd.name, email |-> fd.email, message |-> fd.message,
     website |-> fd.website, ts |-> t]

\* the form data the flusher rebuilds from an item (route.tsx 619-623)
ItemFormData(item) ==
    [name |-> item.name, email |-> item.email, message |-> item.message,
     website |-> item.website]

\* the lock restored on mount (route.tsx 562-573): [state, stored]
RestoreLock(lock, t) ==
    IF lock = NoLock THEN [state |-> FALSE, stored |-> NoLock]
    ELSE IF lock.ts # 0 /\ t - lock.ts < SENT_LOCK_HOURS * MS_PER_HOUR
         THEN [state |-> TRUE, stored |-> lock]
         ELSE [state |-> FALSE, stored |-> NoLock]

\* n valid submissions queued during earlier visits, numbered 1..n
Backlog(n) == [i \in 1..n |-> OutboxItem(i, ValidPayload, Epoch)]

IdleCF == [pc |-> "idle", payload |-> EmptyForm, id |-> 0]

\* what localStorage.getItem(key) can hold: nothing (null), or a text that is
\* a JSON list, a JSON object, the JSON null, a JSON string, or no JSON
Absent == [kind |-> "absent", items |-> << >>, obj |-> EmptyForm]
StoredList(q) == [kind |-> "list", items |-> q, obj |-> EmptyForm]
StoredObject(p) == [kind |-> "object", items |-> << >>, obj |-> p]
StoredNull == [kind |-> "null", items |-> << >>, obj |-> EmptyForm]
StoredString == [kind |-> "string", items |-> << >>, obj |-> EmptyForm]
Unparsable == [kind |-> "text", items |-> << >>, obj |-> EmptyForm]

\* ContactFormQueued.tsx before it is mounted: useState(true), useState("idle")
IdleCall == [pc |-> "idle", payload |-> EmptyForm, id |-> 0]
IdleCQ ==
    [online |-> TRUE, status |-> "idle", flush |-> IdleCall, submit |-> IdleCall,
     queued |-> 0]

\* no outbox function called yet
NoCall == [op |-> "none", on |-> "absent", wrote |-> TRUE, threw |-> FALSE, value |-> FALSE]

\* isOnline() not called yet
NoProbe ==
    [called |-> FALSE, onLine |-> TRUE, ping |-> "200", root |-> "200",
     result |-> FALSE, requests |-> << >>, threw |-> FALSE]

\* a request as the service worker's fetch listener reads it
Request(method, origin, path, mode, destination) ==
    [method |-> method, origin |-> origin, path |-> path, mode |-> mode,
     destination |-> destination]

\* no fetch event yet
NoFetch ==
    [seen |-> FALSE, req |-> Request("GET", "same", <<"/">>, "navigate", "document"),
     branch |-> "pass"]

\* sw.js line 2 and part_000 line 1: the names of the cache stores of the two
\* versions of the service worker, and the name an older version left behind
CACHE == "crate-bunker-v8"
CACHE_NAME == "cb-cache-v1"
CacheNames == {CACHE, CACHE_NAME, "crate-bunker-v7"}

\* the paths the service worker names
RootPath == <<"/">>
OfflinePath == <<"/", "o", "f", "f", "l", "i", "n", "e", ".", "h", "t", "m", "l">>
ManifestPath == <<"/", "m", "a", "n", "i", "f", "e", "s", "t", ".", "j", "s", "o", "n">>
AppIconPath ==
    <<"/", "a", "p", "p", "-", "i", "c", "o", "n", "-", "1", "0", "2", "4", ".", "p", "n", "g">>
FaviconPath == <<"/", "f", "a", "v", "i", "c", "o", "n", ".", "i", "c", "o">>
Icon192Path == <<"/", "i", "c", "o", "n", "-", "1", "9", "2", ".", "p", "n", "g">>
Icon512Path == <<"/", "i", "c", "o", "n", "-", "5", "1", "2", ".", "p", "n", "g">>
OgImagePath ==
    <<"/", "c", "r", "a", "t", "e", "-", "b", "u", "n", "k", "e", "r", "-", "o", "g", "-",
      "i", "m", "a", "g", "e", ".", "p", "n", "g">>

\* sw.js lines 6-11 and part_000 lines 2-8: the precache lists
ASSETS == <<RootPath, OfflinePath, ManifestPath, AppIconPath>>
ASSETS_V1 == <<RootPath, FaviconPath, Icon192Path, Icon512Path, OgImagePath>>

\* the paths requests of the model are made for
Paths ==
    {RootPath, <<"/", "p", "i", "n", "g">>, <<"/", "p", "i", "n", "g", "/", "x">>,
     <<"/", "a", "p", "i", "/", "p", "i", "n", "g">>, <<"/", "a", ".", "j", "s">>,
     ManifestPath, AppIconPath}

\* route.tsx 536: the URLs isOnline fetches, `${path}?ts=${Date.now()}` for
\* /api/ping and for /; the time stamp is new with every probe
PingProbeUrl == <<"/", "a", "p", "i", "/", "p", "i", "n", "g", "?", "t", "s", "=">>
RootProbeUrl == <<"/", "?", "t", "s", "=">>
ProbeUrls == {PingProbeUrl, RootProbeUrl}

\* the keys a cache store can hold an entry for, and what an entry holds:
\* nothing, the response install fetched, the response to a navigation or
\* the response that refreshed a stale-while-revalidate entry; "error" is a
\* stored response that is not ok
CacheKeys ==
    Paths \cup ProbeUrls
    \cup {OfflinePath, FaviconPath, Icon192Path, Icon512Path, OgImagePath}
Bodies == {"none", "precached", "fetched", "refreshed", "error"}
EmptyStore == [exists |-> FALSE, entries |-> [k \in CacheKeys |-> "none"]]
NoCaches == [n \in CacheNames |-> EmptyStore]

\* a service worker script that was registered and not yet installed
Scripts == {"sw.js", "part_000"}
NewWorker(script) ==
    [script |-> script, state |-> "parsed", pc |-> "idle", i |-> 1, failed |-> {},
     keys |-> {}, pending |-> {}, skipWaiting |-> FALSE, claimed |-> FALSE,
     fetches |-> 0]

\* no fetch event answered yet
NoResponse ==
    [kind |-> "none", key |-> RootPath, body |-> "none", status |-> "none",
     fetched |-> FALSE, put |-> FALSE]

\* no POST handled yet
NoPost ==
    [called |-> FALSE, variant |-> "first", raw |-> EmptyForm, prov |-> "sent",
     body |-> "parsed", status |-> 0, flag |-> "none", calls |-> 0,
     check |-> "none", threw |-> FALSE]

\* the query string without any of the five flags
NoFlags == [k \in UrlFlags |-> "none"]

\* no banner: nothing in the query string, nothing mounted, no timer pending
NoBanner ==
    [search |-> NoFlags, mounted |-> FALSE, visible |-> FALSE, dirty |-> FALSE,
     raf |-> FALSE, t0 |-> FALSE, t1 |-> FALSE, t2 |-> FALSE, hideMs |-> 0,
     sets |-> 0, clears |-> 0]

ExtInit ==
    /\ caches = NoCaches
    /\ worker = NewWorker("sw.js")
    /\ resp = NoResponse
    /\ srv = NoPost
    /\ banner = NoBanner
    /\ env = "any"

\* the components that are not mounted stay as they are
AuxInit ==
    /\ store = Absent
    /\ cq = IdleCQ
    /\ call = NoCall
    /\ probe = NoProbe
    /\ sw = NoFetch
    /\ ExtInit

Init ==
    /\ now = Epoch
    /\ lastSent = 0
    /\ nowState = Epoch
    /\ remaining = 0
    /\ cf = IdleCF
    /\ navOnLine \in BOOLEAN
    /\ \E n \in 0..MaxBacklog :
        /\ outbox = Backlog(n)
        /\ nextId = n + 1
    /\ sentLock = NoLock
    /\ url = {}
    /\ timers = 0
    /\ sentOnce = FALSE
    /\ sending = FALSE
    /\ form = EmptyForm
    /\ running = FALSE
    /\ fl = [f \in FlushIds |-> IF f = 1 THEN Invoked ELSE IdleFlush]
    /\ sub = IdleSubmit
    /\ submits = 0
    /\ mailed = {}
    /\ AuxInit

(***************************************************************************)
(* The flusher: the effect of route.tsx 590-673.                           *)
(***************************************************************************)
\* a flush invocation takes the lowest free slot of the model
FreeSlot(f) == fl[f].pc = "idle" /\ \A g \in FlushIds : g < f => fl[g].pc # "idle"

\* flush() up to its first await (603-604)
flush(f) ==
    /\ FreeSlot(f)
    /\ fl' = IF running THEN fl ELSE [fl EXCEPT ![f] = Invoked]

\* window "online" event: onOnline (656)
OnOnline(f) ==
    /\ ~navOnLine
    /\ navOnLine' = TRUE
    /\ flush(f)
    /\ UNCHANGED <<now, outbox, sentLock, url, timers, sentOnce, sending, form,
                   running, sub, nextId, submits, mailed, cfVars, auxVars>>

\* document "visibilitychange" to visible: onVisible (657-659)
OnVisible(f) ==
    /\ flush(f)
    /\ UNCHANGED <<now, navOnLine, outbox, sentLock, url, timers, sentOnce,
                   sending, form, running, sub, nextId, submits, mailed, cfVars, auxVars>>

\* the 8 s interval (660-662)
OnInterval(f) ==
    /\ hasOutbox(readOutbox)
    /\ flush(f)
    /\ UNCHANGED <<now, navOnLine, outbox, sentLock, url, timers, sentOnce,
                   sending, form, running, sub, nextId, submits, mailed, cfVars, auxVars>>

\* the end of a cycle that signals the plain success, without compact=1
FinishPlain(f, any) ==
    IF any
    THEN /\ sentLock' = [ts |-> now]
         /\ sentOnce' = TRUE
         /\ url' = url \cup {"sent"}
         /\ timers' = timers + 1
         /\ running' = FALSE
         /\ fl' = [fl EXCEPT ![f] = IdleFlush]
    ELSE /\ fl' = [fl EXCEPT ![f] = [IdleFlush EXCEPT !.pc = "clearEnd"]]
         /\ UNCHANGED <<sentLock, sentOnce, url, timers, running>>

\* lines 634-653: after the loop.  With anySent the lock is recorded and the
\* compact success is signalled; otherwise the cycle awaits
\* clearQueuedIfOnline, still holding `running`.
Finish(f, any) ==
    IF any
    THEN /\ sentLock' = [ts |-> now]
         /\ sentOnce' = TRUE
         /\ url' = url \cup {"sent", "compact"}
         /\ timers' = timers + 1
         /\ running' = FALSE
         /\ fl' = [fl EXCEPT ![f] = IdleFlush]
    ELSE /\ fl' = [fl EXCEPT ![f] = [IdleFlush EXCEPT !.pc = "clearEnd"]]
         /\ UNCHANGED <<sentLock, sentOnce, url, timers, running>>

\* line 615: the loop condition up to its await, on the outbox q
Loop(f, q, any) ==
    IF hasOutbox(q)
    THEN /\ fl' = [fl EXCEPT ![f] = [pc |-> "loopProbe", next |-> NoItem, anySent |-> any,
                                      empty0 |-> FALSE, probed |-> "none"]]
         /\ UNCHANGED <<sentLock, sentOnce, url, timers, running>>
    ELSE Finish(f, any)

\* lines 604-615: the first probe has answered
FlushProbed(f, online) ==
    /\ fl[f].pc = "probe0"
    /\ online \in ProbeResults
    /\  IF online /\ ~hasOutbox(readOutbox)
        THEN /\ fl' = [fl EXCEPT ![f] = [IdleFlush EXCEPT !.pc = "clearExit"]]
             /\ UNCHANGED running
        ELSE IF ~online \/ ~hasOutbox(readOutbox)
        THEN /\ fl' = [fl EXCEPT ![f] = IdleFlush]
             /\ UNCHANGED running
        ELSE /\ running' = TRUE
             /\ fl' = [fl EXCEPT ![f] = [pc |-> "loopProbe", next |-> NoItem, anySent |-> FALSE,
                                          empty0 |-> fl[f].empty0, probed |-> "none"]]
    /\ UNCHANGED <<now, navOnLine, outbox, sentLock, url, timers, sentOnce,
                   sending, form, sub, nextId, submits, mailed, cfVars, auxVars>>

\* a loop that dequeues and posts whatever its probe answered
FlushLoopProbedAnyway(f, online) ==
    /\ fl[f].pc = "loopProbe"
    /\ online \in ProbeResults
    /\  LET d == dequeue(readOutbox)
        IN  /\ outbox' = d.rest
            /\ IF d.item = NoItem
               THEN Finish(f, fl[f].anySent)
               ELSE /\ fl' = [fl EXCEPT ![f].pc = "posting", ![f].next = d.item,
                                         ![f].empty0 = FALSE,
                                         ![f].probed = IF online THEN "online" ELSE "offline"]
                    /\ UNCHANGED <<sentLock, sentOnce, url, timers, running>>
    /\ UNCHANGED <<now, navOnLine, sending, form, sub, nextId, submits, mailed, cfVars, auxVars>>

\* lines 615-625: the probe of the loop condition has answered
FlushLoopProbed(f, online) ==
    /\ fl[f].pc = "loopProbe"
    /\ online \in ProbeResults
    /\  LET d == dequeue(readOutbox)
        IN  IF ~online
            THEN /\ Finish(f, fl[f].anySent)
                 /\ UNCHANGED outbox
            ELSE /\ outbox' = d.rest
                 /\ IF d.item = NoItem
                    THEN Finish(f, fl[f].anySent)
                    ELSE /\ fl' = [fl EXCEPT ![f].pc = "posting", ![f].next = d.item,
                                              ![f].empty0 = FALSE,
                                              ![f].probed = IF online THEN "online" ELSE "offline"]
                         /\ UNCHANGED <<sentLock, sentOnce, url, timers, running>>
    /\ UNCHANGED <<now, navOnLine, sending, form, sub, nextId, submits, mailed, cfVars, auxVars>>

\* lines 625-632 and 651-653: the POST of the dequeued item has settled
FlushPosted(f, r) ==
    /\ fl[f].pc = "posting"
    /\ r \in FetchTable[ItemFormData(fl[f].next)]
    /\  LET next == fl[f].next
        IN  /\ mailed' = IF r.mailed THEN mailed \cup {next.id} ELSE mailed
            /\ CASE r.res = "throw" ->
                        /\ running' = FALSE
                        /\ fl' = [fl EXCEPT ![f] = IdleFlush]
                        /\ UNCHANGED <<outbox, sentLock, sentOnce, url, timers>>
                 [] r.res = "notok" ->
                        /\ outbox' = <<next>> \o readOutbox
                        /\ Finish(f, fl[f].anySent)
                 [] r.res = "ok" ->
                        /\ UNCHANGED outbox
                        /\ Loop(f, readOutbox, TRUE)
    /\ UNCHANGED <<now, navOnLine, sending, form, sub, nextId, submits, cfVars, auxVars>>

\* the cycle without the `finally` of line 651: `running` is never released
FlushClearedHolding(f, online) ==
    /\ fl[f].pc \in {"clearExit", "clearEnd"}
    /\ online \in ProbeResults
    /\ url' = IF online THEN url \ {"queued"} ELSE url
    /\ fl' = [fl EXCEPT ![f] = IdleFlush]
    /\ UNCHANGED <<now, navOnLine, outbox, sentLock, timers, sentOnce, sending,
                   form, running, sub, nextId, submits, mailed, cfVars, auxVars>>

\* lines 593-600: clearQueuedIfOnline has answered, at 607 or at 649
FlushCleared(f, online) ==
    /\ fl[f].pc \in {"clearExit", "clearEnd"}
    /\ online \in ProbeResults
    /\ url' = IF online THEN url \ {"queued"} ELSE url
    /\ running' = IF fl[f].pc = "clearEnd" THEN FALSE ELSE running
    /\ fl' = [fl EXCEPT ![f] = IdleFlush]
    /\ UNCHANGED <<now, navOnLine, outbox, sentLock, timers, sentOnce, sending,
                   form, sub, nextId, submits, mailed, cfVars, auxVars>>

(***************************************************************************)
(* The form: onSubmit of route.tsx 676-725.                                *)
(***************************************************************************)
\* lines 676-684: the submit event up to the await of the probe.  p is what
\* the user has put in the fields; they are readOnly once sentOnce is set,
\* and then the form is submitted as it stands.
onSubmit(p) ==
    /\ sub.pc = "idle"
    /\ IF sentOnce
       THEN /\ p = form
            /\ UNCHANGED <<sub, nextId, submits, form>>
       ELSE /\ submits < MaxSubmits
            /\ form' = p
            /\ sub' = [pc |-> "probe", fd |-> p, id |-> nextId]
            /\ nextId' = nextId + 1
            /\ submits' = submits + 1
    /\ UNCHANGED <<now, navOnLine, outbox, sentLock, url, timers, sentOnce,
                   sending, running, fl, mailed, cfVars, auxVars>>

\* lines 684-703: the probe has answered; enqueue offline, POST online
SubmitProbed(online) ==
    /\ sub.pc = "probe"
    /\ online \in ProbeResults
    /\  IF ~online
        THEN /\ outbox' = enqueue(readOutbox, OutboxItem(sub.id, sub.fd, now))
             /\ url' = url \cup {"queued"}
             /\ form' = EmptyForm
             /\ sub' = IdleSubmit
             /\ UNCHANGED sending
        ELSE /\ sending' = TRUE
             /\ sub' = [sub EXCEPT !.pc = "posting"]
             /\ UNCHANGED <<outbox, url, form>>
    /\ UNCHANGED <<now, navOnLine, sentLock, timers, sentOnce, running, fl,
                   nextId, submits, mailed, cfVars, auxVars>>

\* lines 703-724: the direct POST has settled
SubmitPosted(r) ==
    /\ sub.pc = "posting"
    /\ r \in FetchTable[sub.fd]
    /\  /\ mailed' = IF r.mailed THEN mailed \cup {sub.id} ELSE mailed
        /\ IF r.res = "ok"
           THEN /\ sentLock' = [ts |-> now]
                /\ sentOnce' = TRUE
                /\ url' = url \cup {"sent"}
                /\ form' = EmptyForm
                /\ timers' = timers + 1
           ELSE /\ url' = url \cup {"error"}
                /\ UNCHANGED <<sentLock, sentOnce, form, timers>>
    /\ sending' = FALSE
    /\ sub' = IdleSubmit
    /\ UNCHANGED <<now, navOnLine, outbox, running, fl, nextId, submits, cfVars, auxVars>>

(***************************************************************************)
(* The page and its environment.                                           *)
(***************************************************************************)
\* a clearQuerySoon timeout fires (579-587)
ClearQuery ==
    /\ timers > 0
    /\ timers' = timers - 1
    /\ url' = url \ UrlFlags
    /\ UNCHANGED <<now, navOnLine, outbox, sentLock, sentOnce, sending, form,
                   running, fl, sub, nextId, submits, mailed, cfVars, auxVars>>

\* the page is loaded again: what was suspended is gone with the old page,
\* local storage and the URL stay, the mount effects run (559-573, 666)
Mount ==
    /\ LET r == RestoreLock(sentLock, now) IN
        /\ sentOnce' = r.state
        /\ sentLock' = r.stored
    /\ sending' = FALSE
    /\ form' = EmptyForm
    /\ running' = FALSE
    /\ timers' = 0
    /\ sub' = IdleSubmit
    /\ fl' = [f \in FlushIds |-> IF f = 1 THEN Invoked ELSE IdleFlush]
    /\ UNCHANGED <<now, navOnLine, outbox, url, nextId, submits, mailed, cfVars, auxVars>>

\* time passes
Tick ==
    /\ \E t \in TimePoints : t > now /\ now' = t
    /\ UNCHANGED <<navOnLine, outbox, sentLock, url, timers, sentOnce, sending,
                   form, running, fl, sub, nextId, submits, mailed, cfVars, auxVars>>

\* the browser loses its connection ("offline" has no listener)
GoOffline ==
    /\ navOnLine
    /\ navOnLine' = FALSE
    /\ UNCHANGED <<now, outbox, sentLock, url, timers, sentOnce, sending, form,
                   running, fl, sub, nextId, submits, mailed, cfVars, auxVars>>

Next ==
    \/ \E f \in FlushIds : OnOnline(f)
    \/ \E f \in FlushIds : OnVisible(f)
    \/ \E f \in FlushIds : OnInterval(f)
    \/ \E f \in FlushIds, online \in BOOLEAN : FlushProbed(f, online)
    \/ \E f \in FlushIds, online \in BOOLEAN : FlushLoopProbed(f, online)
    \/ \E f \in FlushIds :
        /\ fl[f].pc = "posting"
        /\ \E r \in FetchTable[ItemFormData(fl[f].next)] : FlushPosted(f, r)
    \/ \E f \in FlushIds, online \in BOOLEAN : FlushCleared(f, online)
    \/ \E p \in Payloads : onSubmit(p)
    \/ \E online \in BOOLEAN : SubmitProbed(online)
    \/ /\ sub.pc = "posting"
       /\ \E r \in FetchTable[sub.fd] : SubmitPosted(r)
    \/ ClearQuery
    \/ Mount
    \/ GoOffline

\* one visit within one instant of the clock, with a backlog to flush
Spec == Init /\ [][Next]_vars

\* the network and the endpoint settle: from here on every probe reports
\* online and every POST is accepted
Settle ==
    /\ env = "any"
    /\ navOnLine
    /\ env' = "good"
    /\ UNCHANGED <<now, navOnLine, outbox, sentLock, url, timers, sentOnce, sending,
                   form, running, fl, sub, nextId, submits, mailed, cfVars, store,
                   cq, call, probe, sw, swVars, srv, banner>>

\* what the probe and the endpoint can answer in the environment at hand
Probes == IF env = "good" THEN {TRUE} ELSE BOOLEAN
Accepted(results) == IF env = "good" THEN {r \in results : r.res = "ok"} ELSE results

\* the steps of the flush invocation in slot f: an awaited probe or POST settles
FlushStep(f) ==
    \/ \E online \in Probes : FlushProbed(f, online)
    \/ \E online \in Probes : FlushLoopProbed(f, online)
    \/ /\ fl[f].pc = "posting"
       /\ \E r \in Accepted(FetchTable[ItemFormData(fl[f].next)]) : FlushPosted(f, r)
    \/ \E online \in Probes : FlushCleared(f, online)

\* the interval fires and starts a flush
IntervalFlush == \E f \in FlushIds : OnInterval(f)

\* the page with its flusher, in an environment that settles at some point;
\* the page is not loaded again after that (a reload drops the running flush,
\* so a page reloaded without end never gets to post)
NextDrain ==
    \/ \E f \in FlushIds : env = "any" /\ OnOnline(f)
    \/ \E f \in FlushIds : OnVisible(f)
    \/ IntervalFlush
    \/ \E f \in FlushIds : FlushStep(f)
    \/ ClearQuery
    \/ env = "any" /\ Mount
    \/ env = "any" /\ GoOffline
    \/ Settle

\* the interval keeps firing while the outbox is not empty, and a probe or a
\* POST that is awaited settles
SpecDrain ==
    /\ Init
    /\ [][NextDrain]_vars
    /\ WF_vars(IntervalFlush)
    /\ \A f \in FlushIds : WF_vars(FlushStep(f))

\* the outbox two offline submits leave behind: the form data p, queued as
\* it was typed (686-699), and a valid submission behind it
QueuedBehind(p) == <<OutboxItem(1, p, Epoch), OutboxItem(2, ValidPayload, Epoch)>>

InitQueued ==
    /\ now = Epoch
    /\ lastSent = 0
    /\ nowState = Epoch
    /\ remaining = 0
    /\ cf = IdleCF
    /\ navOnLine \in BOOLEAN
    /\ \E p \in Payloads : outbox = QueuedBehind(p)
    /\ nextId = 3
    /\ sentLock = NoLock
    /\ url = {"queued"}
    /\ timers = 0
    /\ sentOnce = FALSE
    /\ sending = FALSE
    /\ form = EmptyForm
    /\ running = FALSE
    /\ fl = [f \in FlushIds |-> IF f = 1 THEN Invoked ELSE IdleFlush]
    /\ sub = IdleSubmit
    /\ submits = 0
    /\ mailed = {}
    /\ AuxInit

\* an endpoint that, once the environment has settled, accepts every valid
\* submission and answers the others as its validation does (route.ts 70-76)
Served(results) ==
    IF env # "good" THEN results
    ELSE IF \E r \in results : r.res = "ok" /\ r.mailed
    THEN {r \in results : r.res = "ok" /\ r.mailed}
    ELSE {r \in results : r.res # "throw"}

\* the steps of the flush invocation in slot f, against that endpoint
FlushStepServed(f) ==
    \/ \E online \in Probes : FlushProbed(f, online)
    \/ \E online \in Probes : FlushLoopProbed(f, online)
    \/ /\ fl[f].pc = "posting"
       /\ \E r \in Served(FetchTable[ItemFormData(fl[f].next)]) : FlushPosted(f, r)
    \/ \E online \in Probes : FlushCleared(f, online)

\* the page with its flusher and that outbox, in an environment that settles
NextQueued ==
    \/ \E f \in FlushIds : env = "any" /\ OnOnline(f)
    \/ \E f \in FlushIds : OnVisible(f)
    \/ IntervalFlush
    \/ \E f \in FlushIds : FlushStepServed(f)
    \/ ClearQuery
    \/ env = "any" /\ Mount
    \/ env = "any" /\ GoOffline
    \/ Settle

SpecQueued ==
    /\ InitQueued
    /\ [][NextQueued]_vars
    /\ WF_vars(IntervalFlush)
    /\ \A f \in FlushIds : WF_vars(FlushStepServed(f))

\* the same page over the hours: no backlog, the clock runs
InitClock == Init /\ outbox = << >>

NextClock == Next \/ Tick

SpecClock == InitClock /\ [][NextClock]_vars

(***************************************************************************)
(* The form of src/components/ContactForm.tsx.                             *)
(***************************************************************************)
v2Vars == <<sentLock, url, timers, sentOnce, running, fl, sub>>

\* lines 42-47: last + COOLDOWN_MS - now, floored at 0
cooldownRemaining(last, n) ==
    LET rem == last + COOLDOWN_MS - n IN IF rem > 0 THEN rem ELSE 0

\* line 49
inCooldown == remaining > 0

\* lines 91-96: the payload built from the fields
Payload(p) ==
    [name |-> trim(p.name), email |-> trim(p.email), message |-> trim(p.message),
     website |-> p.website]

\* the payload as the outbox holds it, with the number of the submission
Queued(id, payload) ==
    [id |-> id, name |-> payload.name, email |-> payload.email,
     message |-> payload.message, website |-> payload.website]

\* lines 77-85: send().  The request is made with redirect: "manual" and the
\* status the handler answered with is taken as the status the page reads.
send(payload, net, prov) ==
    IF net = "reqfail" THEN [res |-> "throw", mailed |-> FALSE]
    ELSE LET r == POST(payload, prov) IN
         IF net = "respfail" THEN [res |-> "throw", mailed |-> r.mailed]
         ELSE [res |-> IF ResOk(r.status) \/ r.status = 303 \/ r.status = 204
                       THEN "ok" ELSE "notok",
               mailed |-> r.mailed]

SendResults(payload) ==
    {send(payload, net, prov) : net \in NetOutcomes, prov \in ProviderOutcomes}

\* SendResults, tabulated over the payloads of the model
SendTable == [p \in Payloads |-> SendResults(p)]

\* lines 88-119: the submit event up to the await of send().  p is what the
\* user has put in the fields; `online` is navigator.onLine as rendered.
CFonSubmit(p) ==
    /\ cf.pc = "idle"
    /\ submits < MaxCFSubmits
    /\ submits' = submits + 1
    /\ nextId' = nextId + 1
    /\ form' = p
    /\ LET payload == Payload(p) IN
       IF payload.name = EmptyStr \/ ~isEmail(payload.email) \/ payload.message = EmptyStr
       THEN UNCHANGED <<outbox, lastSent, cf, sending>>
       ELSE IF payload.website # EmptyStr
       THEN UNCHANGED <<outbox, lastSent, cf, sending>>
       ELSE IF inCooldown
       THEN UNCHANGED <<outbox, lastSent, cf, sending>>
       ELSE IF ~navOnLine
       THEN /\ outbox' = enqueue(readOutbox, Queued(nextId, payload))
            /\ lastSent' = now
            /\ UNCHANGED <<cf, sending>>
       ELSE /\ sending' = TRUE
            /\ cf' = [pc |-> "sending", payload |-> payload, id |-> nextId]
            /\ UNCHANGED <<outbox, lastSent>>
    /\ UNCHANGED <<now, navOnLine, nowState, remaining, mailed, v2Vars, auxVars>>

\* lines 121-136: send() has settled
CFSent(r) ==
    /\ cf.pc = "sending"
    /\ r \in SendTable[cf.payload]
    /\  /\ mailed' = IF r.mailed THEN mailed \cup {cf.id} ELSE mailed
        /\ IF r.res = "ok"
           THEN /\ lastSent' = now
                /\ form' = [form EXCEPT !.name = EmptyStr, !.email = EmptyStr,
                                         !.message = EmptyStr]
                /\ UNCHANGED outbox
           ELSE /\ outbox' = enqueue(readOutbox, Queued(cf.id, cf.payload))
                /\ UNCHANGED <<lastSent, form>>
    /\ sending' = FALSE
    /\ cf' = IdleCF
    /\ UNCHANGED <<now, navOnLine, nowState, remaining, nextId, submits, v2Vars, auxVars>>

\* lines 37-47: the 15 s interval fires: setNow(Date.now()), and the render
\* that follows computes cooldownRemaining afresh
CFInterval ==
    /\ nowState # now
    /\ nowState' = now
    /\ remaining' = cooldownRemaining(lastSent, now)
    /\ UNCHANGED <<now, navOnLine, outbox, sending, form, lastSent, cf, nextId,
                   submits, mailed, v2Vars, auxVars>>

\* time passes to t.  The interval has fired on the way, the last time at s,
\* less than 15 s before t.
CFTick ==
    /\ \E t \in TimePoints : \E s \in {t - 1, t} :
        /\ t > now
        /\ s > now
        /\ t - s < TICK_MS
        /\ now' = t
        /\ nowState' = s
        /\ remaining' = cooldownRemaining(lastSent, s)
    /\ UNCHANGED <<navOnLine, outbox, sending, form, lastSent, cf, nextId,
                   submits, mailed, v2Vars, auxVars>>

\* the page is loaded again (lines 26-47)
CFMount ==
    /\ nowState' = now
    /\ remaining' = cooldownRemaining(lastSent, now)
    /\ form' = EmptyForm
    /\ sending' = FALSE
    /\ cf' = IdleCF
    /\ UNCHANGED <<now, navOnLine, outbox, lastSent, nextId, submits, mailed, v2Vars, auxVars>>

\* navigator.onLine changes; this form listens to neither event
CFConnectivity ==
    /\ navOnLine' = ~navOnLine
    /\ UNCHANGED <<now, outbox, sending, form, cfVars, nextId, submits, mailed, v2Vars, auxVars>>

InitCF ==
    /\ now = Epoch
    /\ navOnLine \in BOOLEAN
    /\ outbox = << >>
    /\ sentLock = NoLock
    /\ url = {}
    /\ timers = 0
    /\ sentOnce = FALSE
    /\ sending = FALSE
    /\ form = EmptyForm
    /\ running = FALSE
    /\ fl = [f \in FlushIds |-> IdleFlush]
    /\ sub = IdleSubmit
    /\ lastSent = 0
    /\ nowState = Epoch
    /\ remaining = cooldownRemaining(0, Epoch)
    /\ cf = IdleCF
    /\ nextId = 1
    /\ submits = 0
    /\ mailed = {}
    /\ AuxInit

NextCF ==
    \/ \E p \in Payloads : CFonSubmit(p)
    \/ /\ cf.pc = "sending"
       /\ \E r \in SendTable[cf.payload] : CFSent(r)
    \/ CFInterval
    \/ CFTick
    \/ CFMount
    \/ CFConnectivity

SpecCF == InitCF /\ [][NextCF]_vars

(***************************************************************************)
(* The form of src/components/ContactFormQueued.tsx: one payload stored    *)
(* under the outbox key, sent when the browser is online again.            *)
(***************************************************************************)
\* submissions the user makes to the form of ContactFormQueued.tsx
MaxCQSubmits == 2

\* what this component leaves alone
cqFrame == <<now, outbox, sentLock, timers, sentOnce, sending, form, running,
             fl, sub, cfVars, call, probe, sw, extVars>>

\* lines 72-83: send(), with redirect: "manual"; 303 counts as success
CQsend(payload, net, prov) ==
    IF net = "reqfail" THEN [res |-> "throw", mailed |-> FALSE]
    ELSE LET r == POST(payload, prov) IN
         IF net = "respfail" THEN [res |-> "throw", mailed |-> r.mailed]
         ELSE [res |-> IF ResOk(r.status) \/ r.status = 303 THEN "ok" ELSE "notok",
               mailed |-> r.mailed]

CQSendTable ==
    [p \in Payloads |-> {CQsend(p, net, prov) : net \in NetOutcomes, prov \in ProviderOutcomes}]

\* lines 45-53: the flush effect, run with `online` true: with something
\* stored it sets the status and starts send() of the stored payload
CQFlushEffect(c, st) ==
    IF st.kind = "absent" \/ c.flush.pc # "idle" THEN c
    ELSE [c EXCEPT !.status = "sending",
                   !.flush = [pc |-> "sending", payload |-> st.obj, id |-> c.queued]]

\* lines 26-66: the component mounts.  The first render has online = true, so
\* the flush effect runs whatever navigator.onLine says; sync() then sets
\* `online` to navigator.onLine.
CQMounted(st, onLine, queued) ==
    [CQFlushEffect([IdleCQ EXCEPT !.queued = queued], st) EXCEPT !.online = onLine]

\* the page is loaded again
CQMount ==
    /\ cq' = CQMounted(store, navOnLine, cq.queued)
    /\ UNCHANGED <<navOnLine, url, nextId, submits, mailed, store, cqFrame>>

\* lines 33-42 and 45-49: an online or offline event: sync(), and the flush
\* effect runs again because `online` changed
CQConnectivity ==
    /\ navOnLine' = ~navOnLine
    /\ cq' = IF navOnLine'
             THEN CQFlushEffect([cq EXCEPT !.online = TRUE], store)
             ELSE [cq EXCEPT !.online = FALSE]
    /\ UNCHANGED <<url, nextId, submits, mailed, store, cqFrame>>

\* lines 53-64: send() of the stored payload has settled
CQFlushDone(r) ==
    /\ cq.flush.pc = "sending"
    /\ r \in CQSendTable[cq.flush.payload]
    /\ mailed' = IF r.mailed THEN mailed \cup {cq.flush.id} ELSE mailed
    /\ IF r.res = "ok"
       THEN /\ store' = Absent
            /\ cq' = [cq EXCEPT !.status = "sent", !.flush = IdleCall, !.queued = 0]
            /\ url' = {"sent"}
       ELSE /\ cq' = [cq EXCEPT !.status = "error", !.flush = IdleCall]
            /\ UNCHANGED <<store, url>>
    /\ UNCHANGED <<navOnLine, nextId, submits, cqFrame>>

\* lines 91-111: the submit event up to the await of send()
CQonSubmit(p) ==
    /\ cq.submit.pc = "idle"
    /\ submits < MaxCQSubmits
    /\ submits' = submits + 1
    /\ nextId' = nextId + 1
    /\ IF ~cq.online
       THEN /\ store' = StoredObject(p)
            /\ cq' = [cq EXCEPT !.status = "queued", !.queued = nextId]
       ELSE /\ cq' = [cq EXCEPT !.status = "sending",
                                !.submit = [pc |-> "sending", payload |-> p, id |-> nextId]]
            /\ UNCHANGED store
    /\ UNCHANGED <<navOnLine, url, mailed, cqFrame>>

\* lines 111-116: the direct send() has settled
CQSubmitDone(r) ==
    /\ cq.submit.pc = "sending"
    /\ r \in CQSendTable[cq.submit.payload]
    /\ mailed' = IF r.mailed THEN mailed \cup {cq.submit.id} ELSE mailed
    /\ cq' = [cq EXCEPT !.status = IF r.res = "ok" THEN "sent" ELSE "error",
                        !.submit = IdleCall]
    /\ url' = IF r.res = "ok" THEN {"sent"} ELSE url
    /\ UNCHANGED <<navOnLine, nextId, submits, store, cqFrame>>

InitCQ ==
    /\ now = Epoch
    /\ navOnLine \in BOOLEAN
    /\ outbox = << >>
    /\ sentLock = NoLock
    /\ url = {}
    /\ timers = 0
    /\ sentOnce = FALSE
    /\ sending = FALSE
    /\ form = EmptyForm
    /\ running = FALSE
    /\ fl = [f \in FlushIds |-> IdleFlush]
    /\ sub = IdleSubmit
    /\ lastSent = 0
    /\ nowState = Epoch
    /\ remaining = 0
    /\ cf = IdleCF
    /\ submits = 0
    /\ mailed = {}
    /\ call = NoCall
    /\ probe = NoProbe
    /\ sw = NoFetch
    /\ ExtInit
    /\ \E q \in {0, 1} :
        /\ store = IF q = 0 THEN Absent ELSE StoredObject(ValidPayload)
        /\ nextId = q + 1
        /\ cq = CQMounted(store, navOnLine, q)

NextCQ ==
    \/ \E p \in Payloads : CQonSubmit(p)
    \/ /\ cq.submit.pc = "sending"
       /\ \E r \in CQSendTable[cq.submit.payload] : CQSubmitDone(r)
    \/ /\ cq.flush.pc = "sending"
       /\ \E r \in CQSendTable[cq.flush.payload] : CQFlushDone(r)
    \/ CQConnectivity
    \/ CQMount

SpecCQ == InitCQ /\ [][NextCQ]_vars

(***************************************************************************)
(* The outbox functions of route.tsx 485-512 on whatever is stored under   *)
(* the key, with a localStorage.setItem that can fail.                     *)
(***************************************************************************)
\* items a stored list holds at most
MaxStored == 3

\* readOutbox (485-491): JSON.parse(getItem(KEY) || "[]"), [] when it throws.
\* A parsable value that is no list is returned as it is.
readOutboxOf(st) ==
    IF st.kind \in {"absent", "text"} THEN StoredList(<< >>) ELSE st

\* hasOutbox (510-512): readOutbox().length > 0.  null.length throws; an
\* object has no length (undefined > 0 is false); a string has its own.
hasOutboxOf(st) ==
    LET q == readOutboxOf(st) IN
    CASE q.kind = "null" -> [threw |-> TRUE, value |-> FALSE]
      [] q.kind = "object" -> [threw |-> FALSE, value |-> FALSE]
      [] q.kind = "string" -> [threw |-> FALSE, value |-> TRUE]
      [] q.kind = "list" -> [threw |-> FALSE, value |-> hasOutbox(q.items)]

\* writeOutbox (493-495): setItem throws when the write fails
writeOutboxOf(st, items, wrote) ==
    IF wrote THEN [threw |-> FALSE, store |-> StoredList(items)]
    ELSE [threw |-> TRUE, store |-> st]

\* enqueue (497-501): q.push throws on anything but a list
enqueueOf(st, item, wrote) ==
    LET q == readOutboxOf(st) IN
    IF q.kind # "list" THEN [threw |-> TRUE, store |-> st]
    ELSE writeOutboxOf(st, enqueue(q.items, item), wrote)

\* dequeue (503-508): q.shift throws on anything but a list
dequeueOf(st, wrote) ==
    LET q == readOutboxOf(st) IN
    IF q.kind # "list" THEN [threw |-> TRUE, store |-> st]
    ELSE writeOutboxOf(st, dequeue(q.items).rest, wrote)

\* the front requeue of flush (627-628): [next, ...rest] spreads a string
\* and throws on null or an object
requeueOf(st, item, wrote) ==
    LET q == readOutboxOf(st) IN
    CASE q.kind \in {"null", "object"} -> [threw |-> TRUE, store |-> st]
      [] q.kind = "string" -> writeOutboxOf(st, <<item>>, wrote)
      [] q.kind = "list" -> writeOutboxOf(st, <<item>> \o q.items, wrote)

\* values another writer of the key can leave there
ForeignValues ==
    {Absent, Unparsable, StoredNull, StoredString} \cup {StoredObject(p) : p \in Payloads}

\* the frame of the outbox functions
storeFrame == <<now, navOnLine, outbox, sentLock, url, timers, sentOnce, sending,
                form, running, fl, sub, cfVars, nextId, submits, mailed, cq,
                probe, sw, extVars>>

CallHasOutbox ==
    /\ LET r == hasOutboxOf(store) IN
        call' = [op |-> "hasOutbox", on |-> store.kind, wrote |-> TRUE,
                 threw |-> r.threw, value |-> r.value]
    /\ UNCHANGED <<store, storeFrame>>

CallEnqueue(p, wrote) ==
    /\ Len(store.items) < MaxStored
    /\ LET r == enqueueOf(store, OutboxItem(Len(store.items) + 1, p, now), wrote) IN
        /\ store' = r.store
        /\ call' = [op |-> "enqueue", on |-> store.kind, wrote |-> wrote,
                    threw |-> r.threw, value |-> FALSE]
    /\ UNCHANGED storeFrame

CallDequeue(wrote) ==
    /\ LET r == dequeueOf(store, wrote) IN
        /\ store' = r.store
        /\ call' = [op |-> "dequeue", on |-> store.kind, wrote |-> wrote,
                    threw |-> r.threw, value |-> FALSE]
    /\ UNCHANGED storeFrame

CallRequeue(p, wrote) ==
    /\ Len(store.items) < MaxStored
    /\ LET r == requeueOf(store, OutboxItem(0, p, now), wrote) IN
        /\ store' = r.store
        /\ call' = [op |-> "requeue", on |-> store.kind, wrote |-> wrote,
                    threw |-> r.threw, value |-> FALSE]
    /\ UNCHANGED storeFrame

\* another writer of the key stores v
ForeignWrite(v) ==
    /\ v \in ForeignValues
    /\ store' = v
    /\ UNCHANGED <<call, storeFrame>>

InitStore ==
    /\ now = Epoch
    /\ navOnLine = TRUE
    /\ outbox = << >>
    /\ sentLock = NoLock
    /\ url = {}
    /\ timers = 0
    /\ sentOnce = FALSE
    /\ sending = FALSE
    /\ form = EmptyForm
    /\ running = FALSE
    /\ fl = [f \in FlushIds |-> IdleFlush]
    /\ sub = IdleSubmit
    /\ lastSent = 0
    /\ nowState = Epoch
    /\ remaining = 0
    /\ cf = IdleCF
    /\ nextId = 1
    /\ submits = 0
    /\ mailed = {}
    /\ cq = IdleCQ
    /\ call = NoCall
    /\ probe = NoProbe
    /\ sw = NoFetch
    /\ ExtInit
    /\ store \in ForeignValues

NextStore ==
    \/ CallHasOutbox
    \/ \E p \in Payloads, wrote \in BOOLEAN : CallEnqueue(p, wrote)
    \/ \E wrote \in BOOLEAN : CallDequeue(wrote)
    \/ \E p \in Payloads, wrote \in BOOLEAN : CallRequeue(p, wrote)
    \/ \E v \in ForeignValues : ForeignWrite(v)

SpecStore == InitStore /\ [][NextStore]_vars

(***************************************************************************)
(* The connectivity probe in detail: isOnline of route.tsx 531-550.        *)
(***************************************************************************)
\* how a probe request can end: an HTTP response of some status, a network
\* failure, or the abort of the 2500 ms timeout
RequestOutcomes == {"200", "204", "404", "500", "neterror", "timeout"}

\* fetch() resolves on any response and rejects otherwise
fetchResolves(outcome) == outcome \notin {"neterror", "timeout"}

\* a tryFetch that counts only a success status as a response
tryFetchOkOnly(outcome) ==
    [value |-> outcome \in {"200", "204"}, threw |-> FALSE]
\* tryFetch (533-548): true when fetch resolved, false from the catch
tryFetch(outcome) ==
    [value |-> fetchResolves(outcome), threw |-> FALSE]

\* one run of isOnline(): its result, the requests it issued, in order, and
\* whether it ended by throwing.  `||` at 549 calls tryFetch("/") only when
\* tryFetch("/api/ping") returned false.
isOnlineRun(onLine, ping, root) ==
    LET a == tryFetch(ping)
        b == tryFetch(root)
    IN  [result |-> isOnline(onLine, a.value, b.value),
         requests |-> IF ~onLine THEN << >>
                      ELSE IF a.value THEN <<"/api/ping">>
                      ELSE <<"/api/ping", "/">>,
         threw |-> onLine /\ (a.threw \/ (~a.value /\ b.threw))]

probeFrame == <<now, outbox, sentLock, url, timers, sentOnce, sending, form,
                running, fl, sub, cfVars, nextId, submits, mailed, store, cq,
                call, sw, extVars>>

\* isOnline() runs while the two requests would end as ping and root
ProbeRun(ping, root) ==
    /\ LET r == isOnlineRun(navOnLine, ping, root) IN
        probe' = [called |-> TRUE, onLine |-> navOnLine, ping |-> ping, root |-> root,
                  result |-> r.result, requests |-> r.requests, threw |-> r.threw]
    /\ UNCHANGED <<navOnLine, probeFrame>>

\* navigator.onLine changes
ProbeConnectivity ==
    /\ navOnLine' = ~navOnLine
    /\ UNCHANGED <<probe, probeFrame>>

InitProbe ==
    /\ now = Epoch
    /\ navOnLine \in BOOLEAN
    /\ outbox = << >>
    /\ sentLock = NoLock
    /\ url = {}
    /\ timers = 0
    /\ sentOnce = FALSE
    /\ sending = FALSE
    /\ form = EmptyForm
    /\ running = FALSE
    /\ fl = [f \in FlushIds |-> IdleFlush]
    /\ sub = IdleSubmit
    /\ lastSent = 0
    /\ nowState = Epoch
    /\ remaining = 0
    /\ cf = IdleCF
    /\ nextId = 1
    /\ submits = 0
    /\ mailed = {}
    /\ AuxInit

NextProbe ==
    \/ \E ping \in RequestOutcomes, root \in RequestOutcomes : ProbeRun(ping, root)
    \/ ProbeConnectivity

SpecProbe == InitProbe /\ [][NextProbe]_vars

(***************************************************************************)
(* The service worker: src/public/sw.js and its older version part_000.     *)
(***************************************************************************)
\* s begins with pre: String.prototype.startsWith
startsWith(s, pre) == Len(s) >= Len(pre) /\ SubSeq(s, 1, Len(pre)) = pre

PingPrefix == <<"/", "p", "i", "n", "g">>

\* the methods and kinds of request of the model
Methods == {"GET", "HEAD", "POST"}
Origins == {"same", "cross"}
Modes == {"navigate", "cors"}
Destinations == {"document", "script", ""}

\* route.tsx 536-540: the request of tryFetch, a same-origin GET made by fetch()
ProbeRequest(u) == Request("GET", "same", u, "cors", "")

\* the GET requests, for every path and kind (a navigation is for a document),
\* and the HEAD and POST requests a page makes with fetch(), to a ping path and
\* to another one, and the requests of the connectivity probe
Kinds == {k \in Modes \X Destinations : k[1] = "navigate" => k[2] = "document"}
Requests ==
    {Request("GET", o, p, k[1], k[2]) : o \in Origins, p \in Paths, k \in Kinds}
    \cup {Request(m, o, p, "cors", "") : m \in Methods \ {"GET"}, o \in Origins,
                                         p \in {RootPath, PingPrefix}}
    \cup {ProbeRequest(u) : u \in ProbeUrls}

\* lines 41-107: the branch the listener takes for req.  "pass" is a return
\* without respondWith; every other branch calls respondWith.
Route(req) ==
    IF req.method \in {"GET", "HEAD"} /\ startsWith(req.path, PingPrefix) THEN "ping"
    ELSE IF req.origin # "same" THEN "pass"
    ELSE IF req.method # "GET" THEN "pass"
    ELSE IF req.mode = "navigate" \/ req.destination = "document" THEN "navigate"
    ELSE IF req.destination \in {"style", "script", "image", "font"} THEN "asset"
    ELSE "default"

\* part_000 lines 27-41: every GET is answered stale-while-revalidate
RouteV1(req) == IF req.method # "GET" THEN "pass" ELSE "swr"

\* the fetch events one worker is sent
MaxFetches == 2

\* the store and the precache list of a script
CacheOf(script) == IF script = "sw.js" THEN CACHE ELSE CACHE_NAME
AssetsOf(script) == IF script = "sw.js" THEN ASSETS ELSE ASSETS_V1

\* caches.open(name) creates the store when there is none
open(cs, name) == [cs EXCEPT ![name].exists = TRUE]

\* cache.match(key): the body of the entry, "none" for undefined.  The search
\* string is part of the key, so no entry matches a URL with a new time stamp.
match(cs, name, key) == IF key \in ProbeUrls THEN "none" ELSE cs[name].entries[key]

\* cache.put(key, response): the entry for the key is replaced
put(cs, name, key, body) == [cs EXCEPT ![name].entries[key] = body]

\* caches.delete(name)
delete(cs, name) == [cs EXCEPT ![name] = EmptyStore]

\* caches.keys()
keys(cs) == {n \in CacheNames : cs[n].exists}

\* what fetch(req) can do: resolve with a response of that status, or reject
SWNetOutcomes == {"200", "404", "neterror"}
ok(net) == net = "200"

swFrame == <<now, navOnLine, outbox, sentLock, url, timers, sentOnce, sending,
             form, running, fl, sub, cfVars, nextId, submits, mailed, store, cq,
             call, probe, srv, banner, env>>

\* sw.js lines 25-27 and part_000 lines 10-12: the install event; the store
\* of this version is opened
InstallOpen ==
    /\ worker.state = "parsed"
    /\ caches' = open(caches, CacheOf(worker.script))
    /\ worker' = [worker EXCEPT !.state = "installing",
                                !.pc = IF worker.script = "sw.js" THEN "add" ELSE "addAll"]
    /\ UNCHANGED <<sw, resp, swFrame>>

\* sw.js lines 14-23: safePrecache, one turn of its loop; added tells whether
\* cache.add fetched and stored the asset or rejected
safePrecache(added) ==
    /\ worker.script = "sw.js"
    /\ worker.pc = "add"
    /\ caches' = IF added
                 THEN put(caches, CACHE, ASSETS[worker.i], "precached")
                 ELSE caches
    /\ worker' = [worker EXCEPT
                    !.failed = IF added THEN @ ELSE @ \cup {worker.i},
                    !.i = @ + 1,
                    !.pc = IF worker.i = Len(ASSETS) THEN "skip" ELSE "add"]
    /\ UNCHANGED <<sw, resp, swFrame>>

\* part_000 line 13: cache.addAll(ASSETS) stores every asset or, when any of
\* them fails, stores none and rejects: the promise of waitUntil rejects and
\* the worker is discarded
addAll(failing) ==
    /\ worker.script = "part_000"
    /\ worker.pc = "addAll"
    /\ IF failing = {}
       THEN /\ caches' = [caches EXCEPT ![CACHE_NAME].entries =
                            [k \in CacheKeys |->
                                IF \E j \in 1..Len(ASSETS_V1) : ASSETS_V1[j] = k
                                THEN "precached" ELSE @[k]]]
            /\ worker' = [worker EXCEPT !.pc = "skip"]
       ELSE /\ caches' = caches
            /\ worker' = [worker EXCEPT !.failed = failing, !.pc = "rejected",
                                        !.state = "redundant"]
    /\ UNCHANGED <<sw, resp, swFrame>>

\* sw.js line 29 and part_000 line 14: self.skipWaiting(), and the install
\* promise resolves
skipWaiting ==
    /\ worker.pc = "skip"
    /\ worker' = [worker EXCEPT !.skipWaiting = TRUE, !.state = "installed",
                                !.pc = "idle"]
    /\ UNCHANGED <<caches, sw, resp, swFrame>>

\* sw.js lines 33-36 and part_000 lines 18-21: the activate event; the names
\* are read and a delete is started for each that is not this version's
ActivateKeys ==
    /\ worker.state = "installed"
    /\ worker' = [worker EXCEPT !.state = "activating", !.pc = "delete",
                                !.keys = keys(caches),
                                !.pending = keys(caches) \ {CacheOf(worker.script)}]
    /\ UNCHANGED <<caches, sw, resp, swFrame>>

\* one of the deletes that Promise.all waits for completes
ActivateDelete(k) ==
    /\ worker.pc = "delete"
    /\ k \in worker.pending
    /\ caches' = delete(caches, k)
    /\ worker' = [worker EXCEPT !.pending = @ \ {k}]
    /\ UNCHANGED <<sw, resp, swFrame>>

\* self.clients.claim() called while deletes are still pending
ActivateClaimEarly ==
    /\ worker.pc = "delete"
    /\ worker' = [worker EXCEPT !.claimed = TRUE, !.pc = "claimed"]
    /\ UNCHANGED <<caches, sw, resp, swFrame>>

\* sw.js line 37 and part_000 line 22: self.clients.claim(), after the await
\* of Promise.all
ActivateClaim ==
    /\ worker.pc = "delete"
    /\ worker.pending = {}
    /\ worker' = [worker EXCEPT !.claimed = TRUE, !.pc = "claimed"]
    /\ UNCHANGED <<caches, sw, resp, swFrame>>

\* sw.js line 38 and part_000 line 23: the listener returns, its locals are
\* gone and the worker is active
ActivateDone ==
    /\ worker.pc = "claimed"
    /\ worker' = [worker EXCEPT !.state = "activated", !.pc = "idle", !.keys = {}]
    /\ UNCHANGED <<caches, sw, resp, swFrame>>

\* a response of the service worker: where it came from, the key and the body
\* of a cached one, the status, whether fetch(req) was called and whether the
\* cache was written
Response(kind, key, body, status, fetched, written) ==
    [kind |-> kind, key |-> key, body |-> body, status |-> status,
     fetched |-> fetched, put |-> written]

\* res.clone(): what a put of the network's response stores
clone(net, body) == IF ok(net) THEN body ELSE "error"

\* fetch(req) as a response: the network's, or a rejection
FromNetwork(req, net, written) ==
    IF net = "neterror"
    THEN Response("failed", req.path, "none", "none", TRUE, written)
    ELSE Response("network", req.path, "none", net, TRUE, written)

FromCache(key, body, fetched, written) ==
    Response("cached", key, body, "200", fetched, written)

\* navigations answered with the inline page whenever the network fails
NavigateInlineOnly(req, net, stored, cs) ==
    IF net # "neterror"
    THEN LET caching == req.path = RootPath /\ ok(net)
             opened == IF caching THEN open(cs, CACHE) ELSE cs
         IN  [resp |-> FromNetwork(req, net, caching /\ stored),
              caches |-> IF caching /\ stored
                         THEN put(opened, CACHE, req.path, "fetched")
                         ELSE opened]
    ELSE [resp |-> Response("inline", req.path, "none", "200", TRUE, FALSE),
          caches |-> open(cs, CACHE)]

\* navigations that try the cached root before the exact match
NavigateRootFirst(req, net, stored, cs) ==
    IF net # "neterror"
    THEN LET caching == req.path = RootPath /\ ok(net)
             opened == IF caching THEN open(cs, CACHE) ELSE cs
         IN  [resp |-> FromNetwork(req, net, caching /\ stored),
              caches |-> IF caching /\ stored
                         THEN put(opened, CACHE, req.path, "fetched")
                         ELSE opened]
    ELSE LET c == open(cs, CACHE) IN
         [resp |-> IF match(c, CACHE, RootPath) # "none"
                   THEN FromCache(RootPath, match(c, CACHE, RootPath), TRUE, FALSE)
                   ELSE IF match(c, CACHE, req.path) # "none"
                   THEN FromCache(req.path, match(c, CACHE, req.path), TRUE, FALSE)
                   ELSE IF match(c, CACHE, OfflinePath) # "none"
                   THEN FromCache(OfflinePath, match(c, CACHE, OfflinePath), TRUE, FALSE)
                   ELSE Response("inline", req.path, "none", "200", TRUE, FALSE),
          caches |-> c]

\* navigations that store every response the network gives, for any path
NavigateStoreAll(req, net, stored, cs) ==
    IF net # "neterror"
    THEN [resp |-> FromNetwork(req, net, TRUE),
          caches |-> put(open(cs, CACHE), CACHE, req.path, clone(net, "fetched"))]
    ELSE LET c == open(cs, CACHE) IN
         [resp |-> IF match(c, CACHE, req.path) # "none"
                   THEN FromCache(req.path, match(c, CACHE, req.path), TRUE, FALSE)
                   ELSE IF match(c, CACHE, RootPath) # "none"
                   THEN FromCache(RootPath, match(c, CACHE, RootPath), TRUE, FALSE)
                   ELSE IF match(c, CACHE, OfflinePath) # "none"
                   THEN FromCache(OfflinePath, match(c, CACHE, OfflinePath), TRUE, FALSE)
                   ELSE Response("inline", req.path, "none", "200", TRUE, FALSE),
          caches |-> c]

\* sw.js lines 58-78: navigations, network first; stored tells whether the put
\* of line 63, which nothing awaits, stored the response
Navigate(req, net, stored, cs) ==
    IF net # "neterror"
    THEN LET caching == req.path = RootPath /\ ok(net)
             opened == IF caching THEN open(cs, CACHE) ELSE cs
         IN  [resp |-> FromNetwork(req, net, caching /\ stored),
              caches |-> IF caching /\ stored
                         THEN put(opened, CACHE, req.path, clone(net, "fetched"))
                         ELSE opened]
    ELSE LET c == open(cs, CACHE) IN
         [resp |-> IF match(c, CACHE, req.path) # "none"
                   THEN FromCache(req.path, match(c, CACHE, req.path), TRUE, FALSE)
                   ELSE IF match(c, CACHE, RootPath) # "none"
                   THEN FromCache(RootPath, match(c, CACHE, RootPath), TRUE, FALSE)
                   ELSE IF match(c, CACHE, OfflinePath) # "none"
                   THEN FromCache(OfflinePath, match(c, CACHE, OfflinePath), TRUE, FALSE)
                   ELSE Response("inline", req.path, "none", "200", TRUE, FALSE),
          caches |-> c]

\* cache first: the network is asked only when nothing is cached
CacheFirst(req, net, stored, cs, name, storable) ==
    LET c == open(cs, name)
        cached == match(c, name, req.path)
        written == net # "neterror" /\ storable /\ stored
    IN  IF cached # "none"
        THEN [resp |-> FromCache(req.path, cached, FALSE, FALSE), caches |-> c]
        ELSE [resp |-> FromNetwork(req, net, written),
              caches |-> IF written THEN put(c, name, req.path, "refreshed") ELSE c]

\* sw.js lines 80-92 and part_000 lines 30-40: stale-while-revalidate in the
\* store called name; a response is stored when storable(net)
StaleWhileRevalidate(req, net, stored, cs, name, storable) ==
    LET c == open(cs, name)
        cached == match(c, name, req.path)
        written == net # "neterror" /\ storable /\ stored
    IN  [resp |-> IF cached # "none" THEN FromCache(req.path, cached, TRUE, written)
                  ELSE FromNetwork(req, net, written),
         caches |-> IF written THEN put(c, name, req.path, clone(net, "refreshed")) ELSE c]

\* everything else answered with the empty 504 whenever the network fails
DefaultNoCache(req, net, cs) ==
    LET c == open(cs, CACHE) IN
    [resp |-> IF net # "neterror" THEN FromNetwork(req, net, FALSE)
              ELSE Response("empty", req.path, "none", "504", TRUE, FALSE),
     caches |-> c]

\* sw.js lines 94-106: everything else, network first
Default(req, net, cs) ==
    LET c == open(cs, CACHE) IN
    [resp |-> IF net # "neterror" THEN FromNetwork(req, net, FALSE)
              ELSE IF match(c, CACHE, req.path) # "none"
              THEN FromCache(req.path, match(c, CACHE, req.path), TRUE, FALSE)
              ELSE IF req.destination = "document"
              THEN IF match(c, CACHE, OfflinePath) # "none"
                   THEN FromCache(OfflinePath, match(c, CACHE, OfflinePath), TRUE, FALSE)
                   ELSE Response("generic", req.path, "none", "200", TRUE, FALSE)
              ELSE Response("empty", req.path, "none", "504", TRUE, FALSE),
     caches |-> c]

\* a return without respondWith: the browser makes the request itself
PassThrough(req, net, cs) ==
    [resp |-> Response("browser", req.path, "none", net, FALSE, FALSE), caches |-> cs]

\* sw.js lines 46-48: respondWith(fetch(req))
NetworkOnly(req, net, cs) == [resp |-> FromNetwork(req, net, FALSE), caches |-> cs]

\* the branch a script's fetch listener takes
RouteOf(script, req) == IF script = "sw.js" THEN Route(req) ELSE RouteV1(req)

\* the fetch listener of a script on req
Respond(script, req, net, stored, cs) ==
    LET branch == RouteOf(script, req) IN
    IF branch = "pass" THEN PassThrough(req, net, cs)
    ELSE IF branch = "ping" THEN NetworkOnly(req, net, cs)
    ELSE IF branch = "navigate" THEN Navigate(req, net, stored, cs)
    ELSE IF branch = "asset"
    THEN StaleWhileRevalidate(req, net, stored, cs, CACHE, ok(net))
    ELSE IF branch = "swr"
    THEN StaleWhileRevalidate(req, net, stored, cs, CACHE_NAME, net = "200")
    ELSE Default(req, net, cs)

\* sw.js lines 63 and 86, part_000 line 35: the listener calls cache.put
Puts(script, req, net) ==
    LET branch == RouteOf(script, req) IN
    \/ branch = "navigate" /\ req.path = RootPath /\ ok(net)
    \/ branch \in {"asset", "swr"} /\ ok(net)

\* a fetch event for req is dispatched to the active worker
SWFetch(req, net, stored) ==
    /\ worker.state = "activated"
    /\ worker.fetches < MaxFetches
    /\ LET r == Respond(worker.script, req, net, stored, caches) IN
        /\ sw' = [seen |-> TRUE, req |-> req, branch |-> RouteOf(worker.script, req)]
        /\ resp' = r.resp
        /\ caches' = r.caches
    /\ worker' = [worker EXCEPT !.fetches = @ + 1]
    /\ UNCHANGED swFrame

InitSW ==
    /\ now = Epoch
    /\ navOnLine = TRUE
    /\ outbox = << >>
    /\ sentLock = NoLock
    /\ url = {}
    /\ timers = 0
    /\ sentOnce = FALSE
    /\ sending = FALSE
    /\ form = EmptyForm
    /\ running = FALSE
    /\ fl = [f \in FlushIds |-> IdleFlush]
    /\ sub = IdleSubmit
    /\ lastSent = 0
    /\ nowState = Epoch
    /\ remaining = 0
    /\ cf = IdleCF
    /\ nextId = 1
    /\ submits = 0
    /\ mailed = {}
    /\ store = Absent
    /\ cq = IdleCQ
    /\ call = NoCall
    /\ probe = NoProbe
    /\ sw = NoFetch
    /\ resp = NoResponse
    /\ srv = NoPost
    /\ banner = NoBanner
    /\ env = "any"
    /\ \E script \in Scripts : worker = NewWorker(script)
    /\ \E left \in SUBSET CacheNames :
        caches = [n \in CacheNames |-> [EmptyStore EXCEPT !.exists = n \in left]]

NextSW ==
    \/ InstallOpen
    \/ \E added \in BOOLEAN : safePrecache(added)
    \/ \E failing \in SUBSET (1..Len(ASSETS_V1)) : addAll(failing)
    \/ skipWaiting
    \/ ActivateKeys
    \/ \E k \in CacheNames : ActivateDelete(k)
    \/ ActivateClaim
    \/ ActivateDone
    \/ \E req \in Requests, net \in SWNetOutcomes :
        \E stored \in IF Puts(worker.script, req, net) THEN BOOLEAN ELSE {FALSE} :
            SWFetch(req, net, stored)

SpecSW == InitSW /\ [][NextSW]_vars

(***************************************************************************)
(* The mail endpoint, app/api/contact/route.ts: its two POST handlers (the  *)
(* first at lines 61-119, the second at lines 133-182), one call at a time. *)
(***************************************************************************)
\* the limits of the second handler, line 163
MAX_NAME_LEN_2 == 100
MAX_EMAIL_LEN_2 == 200
MAX_MESSAGE_LEN_2 == 5000

\* a string of n times the character c
Repeat(c, n) == [j \in 1..n |-> c]

\* field values at and around the limits
LongName == Repeat("n", MAX_NAME_LEN)
TooLongName == Repeat("n", MAX_NAME_LEN + 1)
LongMail == <<"a", "@">> \o Repeat("b", MAX_EMAIL_LEN - 4) \o <<".", "c">>
TooLongMail == <<"a", "@">> \o Repeat("b", MAX_EMAIL_LEN - 3) \o <<".", "c">>
NoAtMail == <<"a", ".", "c", "o">>
OneChar == Repeat("m", MIN_MESSAGE_LEN - 1)
LongMessage == Repeat("m", MAX_MESSAGE_LEN)
TooLongMessage == Repeat("m", MAX_MESSAGE_LEN + 1)
Blank == <<" ">>

\* the bodies posted: the valid one, and it with one field changed
PostedBodies ==
    {ValidPayload, BotPayload, EmptyForm}
    \cup {[ValidPayload EXCEPT !.name = n] : n \in {EmptyStr, LongName, TooLongName}}
    \cup {[ValidPayload EXCEPT !.email = e] : e \in {EmptyStr, NoAtMail, LongMail, TooLongMail}}
    \cup {[ValidPayload EXCEPT !.message = m] :
            m \in {EmptyStr, OneChar, LongMessage, TooLongMessage}}
    \cup {[ValidPayload EXCEPT !.website = Blank],
          [BotPayload EXCEPT !.message = OneChar],
          [BotPayload EXCEPT !.email = NoAtMail]}

\* how the body of the request reads: it parses, or req.formData() rejects
BodyOutcomes == {"parsed", "rejects"}

\* line 131, /^[^\s@]+@[^\s@]+\.[^\s@]+$/.test(s): no white space, one "@",
\* and after it a "." with a character on both sides
emailOk(e) ==
    /\ \A j \in 1..Len(e) : e[j] \notin WhiteSpace
    /\ \E a \in 1..Len(e) :
        /\ e[a] = "@"
        /\ \A j \in 1..Len(e) : e[j] = "@" => j = a
        /\ a > 1
        /\ \E d \in (a + 2)..(Len(e) - 1) : e[d] = "."

\* how a handler ends: the status of its response, the flag of its redirect,
\* the calls of resend.emails.send, the check that ended it, a throw
Ended(status, flag, calls, check) ==
    [status |-> status, flag |-> flag, calls |-> calls, check |-> check,
     threw |-> FALSE]

\* lines 61-119, the first handler
POSTFirst(raw, prov, body) ==
    IF body = "rejects" THEN Ended(303, "error", 0, "parse")
    ELSE
    LET name == sanitize(OrElse(raw.name, Anonymous))
        email == sanitize(OrElse(raw.email, EmptyStr))
        message == sanitize(OrElse(raw.message, EmptyStr))
        website == trim(OrElse(raw.website, EmptyStr))
    IN  IF website # EmptyStr THEN Ended(400, "none", 0, "honeypot")
        ELSE IF name = EmptyStr \/ Len(name) > MAX_NAME_LEN
        THEN Ended(400, "none", 0, "name")
        ELSE IF ~isEmail(email) \/ Len(email) > MAX_EMAIL_LEN
        THEN Ended(400, "none", 0, "email")
        ELSE IF message = EmptyStr \/ Len(message) < MIN_MESSAGE_LEN
                    \/ Len(message) > MAX_MESSAGE_LEN
        THEN Ended(400, "none", 0, "message")
        ELSE IF prov = "nokey" THEN Ended(500, "none", 0, "key")
        ELSE IF prov = "throws" THEN Ended(303, "error", 1, "provider")
        ELSE IF prov = "error" THEN Ended(303, "error", 1, "provider")
        ELSE Ended(303, "sent", 1, "none")

\* lines 133-182, the second handler; resend.emails.send reports a failure in
\* the value it resolves with, which this handler does not read
POSTSecond(raw, prov, body) ==
    IF body = "rejects" THEN Ended(303, "error", 0, "parse")
    ELSE
    LET name == trim(raw.name)
        email == trim(raw.email)
        message == trim(raw.message)
        hp == raw.website
    IN  IF hp # EmptyStr THEN Ended(303, "sent", 0, "honeypot")
        ELSE IF name = EmptyStr \/ ~emailOk(email) \/ message = EmptyStr
        THEN Ended(303, "error", 0, "fields")
        ELSE IF Len(name) > MAX_NAME_LEN_2 \/ Len(email) > MAX_EMAIL_LEN_2
                    \/ Len(message) > MAX_MESSAGE_LEN_2
        THEN Ended(303, "error", 0, "lengths")
        ELSE IF prov = "throws" THEN Ended(303, "error", 1, "provider")
        ELSE Ended(303, "sent", 1, "none")

\* the fields as each handler validates them
FieldsOf(variant, raw) ==
    IF variant = "first"
    THEN [name |-> sanitize(OrElse(raw.name, Anonymous)),
          email |-> sanitize(OrElse(raw.email, EmptyStr)),
          message |-> sanitize(OrElse(raw.message, EmptyStr)),
          website |-> trim(OrElse(raw.website, EmptyStr))]
    ELSE [name |-> trim(raw.name), email |-> trim(raw.email),
          message |-> trim(raw.message), website |-> raw.website]

Variants == {"first", "second"}

\* both handlers, tabulated over the requests of the model
PostTable ==
    [variant \in Variants, raw \in PostedBodies, prov \in ProviderOutcomes,
     body \in BodyOutcomes |->
        IF variant = "first" THEN POSTFirst(raw, prov, body)
        ELSE POSTSecond(raw, prov, body)]

srvFrame == <<now, navOnLine, outbox, sentLock, url, timers, sentOnce, sending,
              form, running, fl, sub, cfVars, nextId, submits, mailed, store, cq,
              call, probe, sw, swVars, banner, env>>

\* a POST of raw reaches a handler
Post(variant, raw, prov, body) ==
    /\ LET r == PostTable[variant, raw, prov, body]
       IN  srv' = [called |-> TRUE, variant |-> variant, raw |-> raw, prov |-> prov,
                   body |-> body, status |-> r.status, flag |-> r.flag,
                   calls |-> r.calls, check |-> r.check, threw |-> r.threw]
    /\ UNCHANGED srvFrame

InitServer ==
    /\ now = Epoch
    /\ navOnLine = TRUE
    /\ outbox = << >>
    /\ sentLock = NoLock
    /\ url = {}
    /\ timers = 0
    /\ sentOnce = FALSE
    /\ sending = FALSE
    /\ form = EmptyForm
    /\ running = FALSE
    /\ fl = [f \in FlushIds |-> IdleFlush]
    /\ sub = IdleSubmit
    /\ lastSent = 0
    /\ nowState = Epoch
    /\ remaining = 0
    /\ cf = IdleCF
    /\ nextId = 1
    /\ submits = 0
    /\ mailed = {}
    /\ AuxInit

NextServer ==
    \/ \E raw \in PostedBodies, prov \in ProviderOutcomes, body \in BodyOutcomes :
            Post("first", raw, prov, body)
    \/ \E raw \in PostedBodies, prov \in ProviderOutcomes \ {"nokey"},
          body \in BodyOutcomes :
            Post("second", raw, prov, body)

SpecServer == InitServer /\ [][NextServer]_vars

(***************************************************************************)
(* components/Banner.tsx, and the page that sets and clears the flags it    *)
(* reads (app/ping/route.tsx).                                              *)
(***************************************************************************)
\* times the page sets flags while the banner is mounted
MaxFlagSets == 2

\* the values a flag can have in a URL: absent, "1", or what the redirects of
\* the endpoint write (sent=0, error=email_failed, error=server)
FlagValues(k) ==
    IF k = "sent" THEN {"none", "1", "0"}
    ELSE IF k = "error" THEN {"none", "1", "server"}
    ELSE {"none", "1"}
Searches == {q \in [UrlFlags -> {"none", "1", "0", "server"}] :
                \A k \in UrlFlags : q[k] \in FlagValues(k)}

\* lines 18-28: what the banner reads from the query string
isError(q) == q["error"] = "1"
isSent(q) == q["sent"] = "1"
isQueued(q) == q["queued"] = "1"
compact(q) == q["compact"] = "1"
isAlready(q) == q["already"] = "1"
showGlassSent(q) == isSent(q) /\ ~compact(q) /\ ~isError(q) /\ ~isQueued(q)
showCompact(q) ==
    ~showGlassSent(q) /\ (isError(q) \/ isQueued(q) \/ isSent(q) \/ isAlready(q))
Shown(q) == showGlassSent(q) \/ showCompact(q)

\* lines 142-211: the text the mounted banner renders, the glass overlay's
\* or the top bar's
Message(q) ==
    IF showGlassSent(q) THEN "sent"
    ELSE IF isError(q) THEN "error"
    ELSE IF isQueued(q) THEN "offline"
    ELSE IF isAlready(q) THEN "already"
    ELSE "sent"

\* the query string in which the flags of the set are "1" (route.tsx sets no
\* other value)
SearchOf(flags) == [k \in UrlFlags |-> IF k \in flags THEN "1" ELSE "none"]

\* lines 112-120: the dwell
hideMs(q) ==
    IF isError(q) THEN 4000
    ELSE IF isQueued(q) \/ compact(q) THEN 2500
    ELSE IF isAlready(q) THEN 2800
    ELSE IF showGlassSent(q) THEN 1800
    ELSE 2600

\* lines 31-32: the component as first rendered on a page loaded with q
Rendered(q) ==
    [NoBanner EXCEPT !.search = q, !.mounted = Shown(q), !.visible = Shown(q),
                     !.dirty = TRUE]

\* lines 92-100 and route.tsx lines 581-585: the five flags are deleted
clearParams(q) == NoFlags

bannerFrame == <<now, navOnLine, outbox, sentLock, url, timers, sentOnce, sending,
                 form, running, fl, sub, cfVars, nextId, submits, mailed, store, cq,
                 call, probe, sw, swVars, srv, env>>

\* lines 103-139: the effect runs, after the first render and after every
\* change of the query string; the timers of its last run are cleared first
BannerEffect ==
    /\ banner.dirty
    /\ banner' =
        IF ~Shown(banner.search)
        THEN [banner EXCEPT !.dirty = FALSE, !.visible = FALSE, !.t0 = TRUE,
                            !.t1 = FALSE, !.t2 = FALSE]
        ELSE [banner EXCEPT !.dirty = FALSE, !.mounted = TRUE, !.raf = TRUE,
                            !.t0 = FALSE, !.t1 = TRUE, !.t2 = TRUE,
                            !.hideMs = hideMs(banner.search)]
    /\ UNCHANGED bannerFrame

\* line 110: requestAnimationFrame(() => setVisible(true)), which no cleanup
\* cancels
BannerFrame ==
    /\ banner.raf
    /\ banner' = [banner EXCEPT !.raf = FALSE, !.visible = TRUE]
    /\ UNCHANGED bannerFrame

\* line 106: the timeout of the branch without a banner
BannerGone ==
    /\ banner.t0
    /\ banner' = [banner EXCEPT !.t0 = FALSE, !.mounted = FALSE]
    /\ UNCHANGED bannerFrame

\* line 122: the timeout at hideMs
BannerHide ==
    /\ banner.t1
    /\ banner' = [banner EXCEPT !.t1 = FALSE, !.visible = FALSE]
    /\ UNCHANGED bannerFrame

\* lines 123-126: the timeout at hideMs + 220, after the one at hideMs
BannerUnmount ==
    /\ banner.t2
    /\ ~banner.t1
    /\ banner' = [banner EXCEPT !.t2 = FALSE, !.mounted = FALSE,
                                !.search = clearParams(@),
                                !.dirty = banner.search # clearParams(banner.search)]
    /\ UNCHANGED bannerFrame

\* route.tsx lines 643-647, 694-696, 711-721: the page writes the flags of an
\* outcome into the URL, and after a success it calls clearQuerySoon
PageOutcomes == {"sent", "flushed", "queued", "error"}
PageSets(outcome) ==
    /\ banner.sets < MaxFlagSets
    /\ LET q == IF outcome = "sent" THEN [banner.search EXCEPT !["sent"] = "1"]
                ELSE IF outcome = "flushed"
                THEN [banner.search EXCEPT !["sent"] = "1", !["compact"] = "1"]
                ELSE IF outcome = "queued" THEN [banner.search EXCEPT !["queued"] = "1"]
                ELSE [banner.search EXCEPT !["error"] = "1"]
       IN  banner' = [banner EXCEPT
                        !.search = q,
                        !.dirty = @ \/ q # banner.search,
                        !.sets = @ + 1,
                        !.clears = IF outcome \in {"sent", "flushed"} THEN @ + 1 ELSE @]
    /\ UNCHANGED bannerFrame

\* route.tsx lines 579-587: a timeout of clearQuerySoon fires
PageClears ==
    /\ banner.clears > 0
    /\ banner' = [banner EXCEPT !.clears = @ - 1,
                                !.search = clearParams(@),
                                !.dirty = @ \/ banner.search # clearParams(banner.search)]
    /\ UNCHANGED bannerFrame

\* a page is loaded with any combination of the flags in its URL
InitBanner ==
    /\ now = Epoch
    /\ navOnLine = TRUE
    /\ outbox = << >>
    /\ sentLock = NoLock
    /\ url = {}
    /\ timers = 0
    /\ sentOnce = FALSE
    /\ sending = FALSE
    /\ form = EmptyForm
    /\ running = FALSE
    /\ fl = [f \in FlushIds |-> IdleFlush]
    /\ sub = IdleSubmit
    /\ lastSent = 0
    /\ nowState = Epoch
    /\ remaining = 0
    /\ cf = IdleCF
    /\ nextId = 1
    /\ submits = 0
    /\ mailed = {}
    /\ store = Absent
    /\ cq = IdleCQ
    /\ call = NoCall
    /\ probe = NoProbe
    /\ sw = NoFetch
    /\ caches = NoCaches
    /\ worker = NewWorker("sw.js")
    /\ resp = NoResponse
    /\ srv = NoPost
    /\ env = "any"
    /\ \E q \in Searches : banner = Rendered(q)

BannerTimers ==
    \/ BannerEffect
    \/ BannerFrame
    \/ BannerGone
    \/ BannerHide
    \/ BannerUnmount
    \/ PageClears

NextBanner ==
    \/ BannerTimers
    \/ \E outcome \in PageOutcomes : PageSets(outcome)

\* React runs a pending effect, and a timeout that was set and not cleared
\* fires: each of these steps is taken once it stays enabled
SpecBanner ==
    /\ InitBanner
    /\ [][NextBanner]_vars
    /\ WF_vars(BannerEffect)
    /\ WF_vars(BannerFrame)
    /\ WF_vars(BannerGone)
    /\ WF_vars(BannerHide)
    /\ WF_vars(BannerUnmount)
    /\ WF_vars(PageClears)

TypeOK ==
    /\ now \in TimePoints
    /\ navOnLine \in BOOLEAN
    /\ Len(outbox) <= MaxBacklog + MaxSubmits
    /\ url \subseteq UrlFlags
    /\ timers \in 0..(MaxBacklog + MaxSubmits)
    /\ nextId \in 1..(MaxBacklog + MaxSubmits + MaxCFSubmits + 1)
    /\ submits \in 0..(MaxSubmits + MaxCFSubmits)
    /\ remaining \in 0..COOLDOWN_MS
    /\ lastSent \in {0} \cup TimePoints

(***************************************************************************)
(* Claims.                                                                 *)
(***************************************************************************)
\* the three queued submissions A, B, C of the FIFO scenario
ItemA == OutboxItem(1, ValidPayload, Epoch)
ItemB == OutboxItem(2, ValidPayload, Epoch)
ItemC == OutboxItem(3, ValidPayload, Epoch)

\* invocation f is at the second delivery attempt of a cycle over [A, B, C]:
\* A was accepted in this cycle, B is in flight, C is still queued behind it
SecondAttempt(f) ==
    /\ fl[f].pc = "posting"
    /\ fl[f].anySent
    /\ fl[f].next = ItemB
    /\ outbox = <<ItemC>>
    /\ \A g \in FlushIds \ {f} : fl[g].pc = "idle"

\* C1: FIFO integrity.  With A, B, C queued in that order, when the first
\* delivery attempt of a flush cycle is accepted and the second fails (the
\* mail is not accepted: an error answer, or a request that is rejected),
\* the step that ends the second attempt leaves the Outbox equal to [B, C].
C1_FifoIntegrity ==
    [][\A f \in FlushIds : \A r \in FetchTable[ValidPayload] :
        (SecondAttempt(f) /\ ~r.mailed /\ FlushPosted(f, r))
            => outbox' = <<ItemB, ItemC>>]_vars

\* the same scenario where the page reads the answer to the second attempt
\* as not ok (line 626): B is put back in front of C
FifoAfterFailedResponse ==
    [][\A f \in FlushIds : \A r \in FetchTable[ValidPayload] :
        (SecondAttempt(f) /\ r.res = "notok" /\ FlushPosted(f, r))
            => outbox' = <<ItemB, ItemC>>]_vars

\* C2: the flusher never discards an item except on confirmed delivery.
\* Whenever a delivery attempt of a flush cycle settles, the item it had
\* dequeued was confirmed by the endpoint (the page read the response as ok,
\* or the provider accepted the mail) or is in the Outbox again; this for
\* every outcome of the attempt, a rejected request included.
InOutbox(item, q) == \E i \in 1..Len(q) : q[i] = item

C2_NoSilentDrop ==
    [][\A f \in FlushIds : \A r \in FetchTable[ItemFormData(fl[f].next)] :
        FlushPosted(f, r)
            => (r.res = "ok" \/ r.mailed \/ InOutbox(fl[f].next, outbox'))]_vars

\* C4: at most one flush cycle executes at a time: no two invocations are
\* past their dequeue, each with a delivery attempt in flight.
C4_SingleFlush ==
    Cardinality({f \in FlushIds : fl[f].pc = "posting"}) <= 1

\* the items that are queued or in flight in a flush cycle
Undelivered ==
    {outbox[i] : i \in 1..Len(outbox)}
        \cup {fl[f].next : f \in {g \in FlushIds : fl[g].pc = "posting"}}

\* C5: strict FIFO delivery.  While a delivery attempt for a queued item is
\* in flight, no item enqueued before it (a lower number) is still in the
\* Outbox or in flight.
C5_StrictFifo ==
    \A f \in FlushIds :
        fl[f].pc = "posting"
            => \A it \in Undelivered : it.id >= fl[f].next.id

\* the submission is one the endpoint would accept
IsValid(fd) == POST(fd, "sent").mailed

\* C6: offline branch.  When the probe of a submit of a valid payload answers
\* offline, the step appends exactly one item, built from that payload, to
\* the Outbox and makes no request to the mail endpoint: the submit is over,
\* nothing is in flight for it, no flush invocation moves and no mail is
\* accepted.
C6_OfflineBranch ==
    [][(sub.pc = "probe" /\ IsValid(sub.fd) /\ SubmitProbed(FALSE))
        => /\ outbox' = Append(outbox, OutboxItem(sub.id, sub.fd, now))
           /\ Len(outbox') = Len(outbox) + 1
           /\ sub'.pc = "idle"
           /\ sending' = sending
           /\ fl' = fl
           /\ mailed' = mailed]_vars

\* a valid submission was queued offline behind a backlog and nothing was mailed
C6_Witness ==
    /\ submits = 1
    /\ sub.pc = "idle"
    /\ "queued" \in url
    /\ Len(outbox) >= 2
    /\ outbox[Len(outbox)] = OutboxItem(nextId - 1, ValidPayload, now)
    /\ mailed = {}

\* the offline branch of components/ContactForm.tsx (lines 112-119): one
\* payload appended, no request in flight
OfflineBranchCF ==
    [][\A p \in Payloads :
        (CFonSubmit(p) /\ ~navOnLine /\ ~inCooldown /\ IsValid(Payload(p)))
            => /\ outbox' = Append(outbox, Queued(nextId, Payload(p)))
               /\ cf'.pc = "idle"
               /\ mailed' = mailed]_vars

\* C7: honeypot suppression.  No Outbox item carries a non-empty honeypot
\* (website), and no request to the mail endpoint, from a submit or from a
\* flush, carries one.
C7_Honeypot ==
    /\ \A i \in 1..Len(outbox) : outbox[i].website = EmptyStr
    /\ sub.pc = "posting" => sub.fd.website = EmptyStr
    /\ \A f \in FlushIds : fl[f].pc = "posting" => fl[f].next.website = EmptyStr

\* C8: cooldown.  While a success recorded at t is stored, a lock check
\* (line 682 reads sentOnce) reports locked exactly when the time is earlier
\* than t + 1 hour, also on the page that recorded the success.
C8_Cooldown ==
    sentLock # NoLock
        => (sentOnce <=> now - sentLock.ts < SENT_LOCK_HOURS * MS_PER_HOUR)

\* the send-once lock of components/ContactForm.tsx is active
LockActiveCF == lastSent # 0 /\ now - lastSent < COOLDOWN_MS

\* C9: blocked submit.  A submit made while the lock is active starts no
\* request, leaves the Outbox as it is and keeps what is in the fields.
C9_BlockedSubmit ==
    [][\A p \in Payloads :
        (LockActiveCF /\ CFonSubmit(p))
            => /\ cf' = cf
               /\ sending' = sending
               /\ outbox' = outbox
               /\ form' = p
               /\ mailed' = mailed]_vars

\* C3: no duplicate delivery.  A submission whose mail the endpoint has
\* accepted is not in the Outbox, whatever happened to the response.
C3_NoDuplicate ==
    \A i \in 1..Len(outbox) : outbox[i].id \notin mailed

\* C10: the lock is set only on a confirmed send.  Whenever the persisted
\* lock value is present, the endpoint has accepted at least one mail.
C10_LockOnlyOnSend ==
    lastSent # 0 => mailed # {}

\* the client-side validation of a submit: name, email and message present
\* and the email of the shape local@domain.tld
PassesValidation(fd) ==
    fd.name # EmptyStr /\ fd.message # EmptyStr /\ fd.email # EmptyStr /\ isEmail(fd.email)

\* C11: validation precedes every effect.  Every item in the Outbox has a
\* non-empty name, email and message, and no submit has a request to the mail
\* endpoint in flight for fields that fail the validation.
C11_ValidationFirst ==
    /\ \A i \in 1..Len(outbox) :
        /\ outbox[i].name # EmptyStr
        /\ outbox[i].email # EmptyStr
        /\ outbox[i].message # EmptyStr
    /\ sub.pc = "posting" => PassesValidation(sub.fd)

\* C12: failed immediate submission.  When the direct request of an online
\* submit fails (the request is rejected, or the answer is not a success),
\* the step that ends the submit leaves the Outbox unchanged and does not
\* record the lock.
C12_FailedSubmit ==
    [][\A r \in SendTable[cf.payload] :
        (cf.pc = "sending" /\ r.res # "ok" /\ CFSent(r))
            => outbox' = outbox /\ lastSent' = lastSent]_vars

\* the same for the form of app/ping/route.tsx (703-724), which also signals
\* the Error outcome in the URL
FailedSubmitPage ==
    [][\A r \in FetchTable[sub.fd] :
        (sub.pc = "posting" /\ r.res # "ok" /\ SubmitPosted(r))
            => /\ outbox' = outbox
               /\ sentLock' = sentLock
               /\ sentOnce' = sentOnce
               /\ "error" \in url'
               /\ ~sending']_vars

\* the page was loaded with an empty Outbox and one submission was made
OneSubmission == submits = 1 /\ nextId = 2

\* C13: queue-then-flush.  One valid submit while offline, into an empty
\* Outbox, leaves exactly one item with the submitted name, email and message
\* and the time of the submit.  When a flush then finds the browser online it
\* takes that item out for delivery, and when the endpoint accepts it the
\* Outbox is empty, the lock records the time of the success and the URL
\* carries sent and compact.
C13_QueueThenFlush ==
    [][/\ (OneSubmission /\ outbox = << >> /\ IsValid(sub.fd) /\ SubmitProbed(FALSE))
            => /\ Len(outbox') = 1
               /\ ItemFormData(outbox'[1]) = sub.fd
               /\ outbox'[1].ts = now
       /\ \A f \in FlushIds :
            (OneSubmission /\ Len(outbox) = 1 /\ FlushProbed(f, TRUE))
                => fl'[f].pc = "loopProbe" /\ running'
       /\ \A f \in FlushIds :
            (OneSubmission /\ Len(outbox) = 1 /\ FlushLoopProbed(f, TRUE))
                => /\ outbox' = << >>
                   /\ fl'[f].pc = "posting"
                   /\ fl'[f].next = outbox[1]
       /\ \A f \in FlushIds : \A r \in FetchTable[ValidPayload] :
            (OneSubmission /\ fl[f].next.id = 1 /\ r.res = "ok" /\ r.mailed
                    /\ FlushPosted(f, r))
                => /\ outbox' = << >>
                   /\ sentLock' = [ts |-> now]
                   /\ sentOnce'
                   /\ {"sent", "compact"} \subseteq url'
                   /\ fl'[f].pc = "idle"]_vars

\* the one submission, queued offline, has been flushed: delivered, Outbox
\* empty, lock recorded, compact success shown
C13_Witness ==
    /\ OneSubmission
    /\ mailed = {1}
    /\ outbox = << >>
    /\ sentLock = [ts |-> now]
    /\ sentOnce
    /\ {"sent", "compact"} \subseteq url
    /\ sub.pc = "idle"
    /\ \A f \in FlushIds : fl[f].pc = "idle"

\* the submissions the stored value holds
Holds(st, p) ==
    \/ st.kind = "object" /\ st.obj = p
    \/ st.kind = "list" /\ \E i \in 1..Len(st.items) : ItemFormData(st.items[i]) = p

\* C14: enqueue appends and never overwrites.  An offline submission made
\* while an earlier one is still stored leaves both in the persisted Outbox.
C14_EnqueueAppends ==
    [][\A p \in Payloads : \A old \in Payloads :
        (~cq.online /\ Holds(store, old) /\ CQonSubmit(p))
            => Holds(store', old) /\ Holds(store', p)]_vars

\* C15: a corrupted persisted Outbox is treated as empty.  Whatever is stored
\* under the key that is not a list (nothing, unparsable text, null, an
\* object, a string), hasOutbox reports empty and hasOutbox, enqueue and
\* dequeue end without throwing.
C15_CorruptedIsEmpty ==
    (call.op \in {"hasOutbox", "enqueue", "dequeue"} /\ call.on # "list" /\ call.wrote)
        => ~call.threw /\ ~call.value

\* the part of it that the code does provide: nothing stored, or text that
\* does not parse, is an empty queue
UnreadableIsEmpty ==
    (call.op \in {"hasOutbox", "enqueue", "dequeue"} /\ call.on \in {"absent", "text"}
            /\ call.wrote)
        => ~call.threw /\ ~call.value

\* C16: persistence write failures are swallowed.  When the write to local
\* storage fails (on a well-formed or empty Outbox), enqueue, dequeue and the
\* requeue step do not throw.
C16_WriteFailureSwallowed ==
    (call.op \in {"enqueue", "dequeue", "requeue"}
            /\ call.on \in {"absent", "text", "list"} /\ ~call.wrote)
        => ~call.threw

\* C17: isOnline never throws, and when navigator.onLine reports offline it
\* returns false without issuing any request.
C17_ProbeOfflineFlag ==
    probe.called
        => /\ ~probe.threw
           /\ ~probe.onLine => (~probe.result /\ probe.requests = << >>)

\* the flag reported offline although the requests would have been answered
C17_Witness ==
    /\ probe.called
    /\ ~probe.onLine
    /\ probe.ping = "200"
    /\ probe.root = "200"
    /\ ~probe.result
    /\ probe.requests = << >>

\* the request got an HTTP response, of any status
Responded(outcome) == outcome \in {"200", "204", "404", "500"}

\* C18: isOnline result.  With the flag online, isOnline returns true exactly
\* when the ping request or the root request got a response of any status,
\* false exactly when both ended in a network failure or their timeout, and
\* the root is requested only after the ping request failed.
C18_ProbeResult ==
    (probe.called /\ probe.onLine)
        => /\ probe.result <=> (Responded(probe.ping) \/ Responded(probe.root))
           /\ ~probe.result <=>
                (probe.ping \in {"neterror", "timeout"} /\ probe.root \in {"neterror", "timeout"})
           /\ probe.requests =
                IF Responded(probe.ping) THEN <<"/api/ping">> ELSE <<"/api/ping", "/">>

\* the ping timed out and the root answered 404: online, after two requests
C18_Witness ==
    /\ probe.called
    /\ probe.onLine
    /\ probe.ping = "timeout"
    /\ probe.root = "404"
    /\ probe.result
    /\ probe.requests = <<"/api/ping", "/">>

\* the endpoint answered the POST with a failure: a 4xx/5xx status, or a
\* redirect carrying the error flag; no mail was accepted
AnsweredFailure(r) == r.res # "throw" /\ ~r.mailed

\* C19: a delivery the server did not complete is never counted as success.
\* When the endpoint answers the POST of a flush with a failure the item is
\* put back at the front of the Outbox, and when it answers the POST of a
\* submit with a failure the form records no lock and signals no success.
C19_ServerFailureNotSuccess ==
    [][/\ \A f \in FlushIds : \A r \in FetchTable[ItemFormData(fl[f].next)] :
            (fl[f].pc = "posting" /\ AnsweredFailure(r) /\ FlushPosted(f, r))
                => outbox' = <<fl[f].next>> \o outbox
       /\ \A r \in FetchTable[sub.fd] :
            (sub.pc = "posting" /\ AnsweredFailure(r) /\ SubmitPosted(r))
                => /\ sentLock' = sentLock
                   /\ sentOnce' = sentOnce
                   /\ "sent" \in url' => "sent" \in url]_vars

\* C20: the service worker never intercepts a non-GET request.  For every
\* fetch event whose method is not GET, on any URL, the listener returns
\* without calling respondWith.
C20_NonGetPassesThrough ==
    (sw.seen /\ sw.req.method # "GET") => sw.branch = "pass"

\* POST requests are never answered by the worker
PostPassesThrough ==
    (sw.seen /\ sw.req.method = "POST") => sw.branch = "pass"

\* C21: best-effort precache.  Whatever subset of the precache assets fails
\* to fetch, the install step is not rejected: a worker whose precache met a
\* failing asset is never discarded for it, and goes on to skipWaiting.
C21_BestEffortPrecache ==
    worker.failed # {} => worker.state # "redundant"

\* on its own the script of sw.js, which swallows each failure, is never discarded
SafePrecacheInstalls ==
    worker.script = "sw.js" => worker.state # "redundant"

\* C22: activation.  Once the activate step has claimed the clients, every
\* cache store with another name than this version's that existed when the
\* step began is deleted and none of the deletes is still pending; the store
\* of this version exists and holds what install put into it.
C22_Activation ==
    worker.claimed =>
        LET current == CacheOf(worker.script)
            assets == AssetsOf(worker.script)
        IN  /\ worker.pending = {}
            /\ \A n \in worker.keys \ {current} : ~caches[n].exists
            /\ \A n \in CacheNames \ {current} : ~caches[n].exists
            /\ caches[current].exists
            /\ \A j \in (1..Len(assets)) \ worker.failed :
                    match(caches, current, assets[j]) # "none"

\* clients were just claimed by a worker that found three stores, two of
\* them of other versions, and whose own store holds the root document
C22_Witness ==
    /\ worker.claimed
    /\ worker.pc = "claimed"
    /\ worker.keys = CacheNames
    /\ ~caches["crate-bunker-v7"].exists
    /\ match(caches, CacheOf(worker.script), RootPath) = "precached"

\* a fetch event was just answered
Answered == worker'.fetches = worker.fetches + 1

\* a GET navigation to the root that the listener of sw.js answers
RootNavigation(f) ==
    /\ f.seen
    /\ f.branch = "navigate"
    /\ f.req.path = RootPath
    /\ f.req.mode = "navigate"

\* C23: the root-document fallback.  When a navigation to the root was answered
\* by the network with a successful response that the worker stored, and the
\* next navigation to the root finds the network throwing, the answer is that
\* stored root response: not the offline page, not the inline HTML.
C23_RootFallback ==
    [][(/\ worker.script = "sw.js"
        /\ RootNavigation(sw)
        /\ resp.kind = "network" /\ resp.status = "200" /\ resp.put
        /\ Answered
        /\ RootNavigation(sw')
        /\ resp'.kind # "network")
       => resp' = FromCache(RootPath, "fetched", TRUE, FALSE)]_vars

\* the second of two root navigations was answered from the cache with the
\* response the first one stored, although install had not precached the root
C23_Witness ==
    /\ worker.script = "sw.js"
    /\ worker.fetches = 2
    /\ 1 \in worker.failed
    /\ RootNavigation(sw)
    /\ resp = FromCache(RootPath, "fetched", TRUE, FALSE)

\* the listener of sw.js answered a navigation or document GET whose network
\* fetch had failed
FailedNavigation ==
    /\ sw.seen
    /\ worker.script = "sw.js"
    /\ sw.branch = "navigate"
    /\ resp.kind # "network"

AssetGet(f, script) ==
    /\ f.req.method = "GET"
    /\ f.req.destination \in {"style", "script", "image", "font"}
    /\ script = "sw.js" => f.req.origin = "same"

\* C25: stale-while-revalidate for style, script, image and font GETs.  When
\* the store holds a copy, the copy is the response and fetch is still called,
\* its response replacing the copy when it is stored; when the store holds
\* none, the response is the network's, and when the network fails too the
\* request fails: no response is made up.
C25_StaleWhileRevalidate ==
    [][(Answered /\ AssetGet(sw', worker.script)) =>
        LET name == CacheOf(worker.script)
            path == sw'.req.path
            cached == match(caches, name, path)
        IN  /\ cached # "none" =>
                /\ resp'.kind = "cached" /\ resp'.key = path /\ resp'.body = cached
                /\ resp'.fetched
            /\ cached = "none" => resp'.kind \in {"network", "failed"}
            /\ resp'.kind = "failed" => resp'.status = "none"
            /\ resp'.put => match(caches', name, path) = "refreshed"
            /\ ~resp'.put => match(caches', name, path) = cached]_vars

\* a script was answered with the copy install had cached while the response
\* of the fetch that was still made replaced that copy in the store
C25_Witness ==
    /\ sw.seen
    /\ AssetGet(sw, worker.script)
    /\ sw.branch \in {"asset", "swr"}
    /\ resp.kind = "cached" /\ resp.body = "precached"
    /\ resp.fetched /\ resp.put
    /\ match(caches, CacheOf(worker.script), sw.req.path) = "refreshed"

\* the listener of sw.js answered a request under its default policy
DefaultGet ==
    /\ sw.seen
    /\ worker.script = "sw.js"
    /\ sw.branch = "default"

Posted == FieldsOf(srv.variant, srv.raw)

\* the conditions the specification sets for a mail
MeetsLimits(f) ==
    /\ f.website = EmptyStr
    /\ Len(f.name) <= MAX_NAME_LEN
    /\ isEmail(f.email) /\ Len(f.email) <= MAX_EMAIL_LEN
    /\ Len(f.message) >= MIN_MESSAGE_LEN /\ Len(f.message) <= MAX_MESSAGE_LEN

\* C27: server-side validation gates every mail.  A POST handler calls the
\* mail provider only for a request with an empty honeypot, a name of at most
\* 120 characters, an email that matches the address pattern and has at most
\* 254 characters, and a message of 2 to 4000 characters; a request with a
\* filled honeypot is turned down by the honeypot check, whatever else is
\* wrong with it; a message of 2 characters is accepted.
C27_ValidationGates ==
    srv.called =>
        /\ srv.calls > 0 => MeetsLimits(Posted)
        /\ (srv.body = "parsed" /\ Posted.website # EmptyStr)
                => srv.check = "honeypot" /\ srv.calls = 0
        /\ (srv.raw = ValidPayload /\ srv.body = "parsed" /\ srv.prov # "nokey")
                => srv.calls = 1

\* the first handler on its own keeps to the limits
FirstHandlerGates ==
    (srv.called /\ srv.variant = "first") =>
        /\ srv.calls > 0 => MeetsLimits(Posted)
        /\ (srv.body = "parsed" /\ Posted.website # EmptyStr)
                => srv.check = "honeypot" /\ srv.calls = 0
        /\ (MeetsLimits(Posted) /\ srv.body = "parsed" /\ srv.prov # "nokey")
                => srv.calls = 1

\* the summary of the first handler that the pages' fetches go through agrees
\* with the handler
PostAgrees ==
    (srv.called /\ srv.variant = "first" /\ srv.body = "parsed") =>
        LET r == POST(srv.raw, srv.prov) IN
            /\ r.status = srv.status
            /\ r.flag = srv.flag
            /\ r.mailed = (srv.calls = 1 /\ srv.prov = "sent")

\* the provider was called and reported no error
Delivered == srv.calls = 1 /\ srv.prov = "sent"

\* C28: the outcome flags of the server.  Every POST ends with a response,
\* none with a throw; the response is the 303 redirect with sent=1 only when
\* the mail provider was called and reported no error, and carries an error
\* flag or a status of 400 or more in every other case; the provider is
\* called at most once per POST.
C28_OutcomeFlags ==
    srv.called =>
        /\ ~srv.threw
        /\ srv.calls <= 1
        /\ srv.flag = "sent" => srv.status = 303 /\ Delivered
        /\ ~Delivered => srv.flag = "error" \/ srv.status >= 400

\* the first handler on its own flags its outcomes as specified
FirstHandlerFlags ==
    (srv.called /\ srv.variant = "first") =>
        /\ ~srv.threw
        /\ srv.calls <= 1
        /\ srv.flag = "sent" <=> Delivered
        /\ srv.flag = "sent" => srv.status = 303
        /\ ~Delivered => srv.flag = "error" \/ srv.status >= 400

\* an outcome flag is set in the URL; the banner is gone and the URL is clean
FlagSet == banner.search # NoFlags
Cleared == ~banner.mounted /\ banner.search = NoFlags

\* the dwell of the banner on display: that of its outcome, and for the Error
\* outcome longer than that of every banner of another outcome
DwellByOutcome ==
    (banner.t1 /\ ~banner.dirty) =>
        /\ banner.hideMs = hideMs(banner.search)
        /\ isError(banner.search) =>
                \A q \in Searches : (Shown(q) /\ ~isError(q)) => hideMs(q) < banner.hideMs

\* C29: the status banner clears itself.  From every state in which one of
\* the flags sent, error, queued, compact, already is set in the URL, the
\* banner is eventually hidden and unmounted and all five flags are removed
\* from the URL; the banner of the Error outcome dwells longer than any other.
C29_SelfClears ==
    /\ [] DwellByOutcome
    /\ FlagSet ~> Cleared

\* a banner that is displayed does clear itself and the URL
DisplayedBannerClears ==
    Shown(banner.search) ~> Cleared

\* C30: the queue drains.  Once every probe reports online and the endpoint
\* accepts every delivery, and with the interval firing while the outbox is
\* not empty, the outbox becomes empty and stays empty (the page enqueues
\* nothing while it is online).
C30_QueueDrains ==
    (env = "good") ~> [](outbox = << >>)

\* the environment has settled and the flusher has posted the whole backlog
C30_Witness ==
    /\ env = "good"
    /\ outbox = << >>
    /\ Cardinality(mailed) = MaxBacklog
    /\ \A f \in FlushIds : fl[f].pc = "idle"
    /\ ~running

\* C31: every delivery attempt of a flush cycle follows a probe of its own.
\* A cycle starts a POST only in the step in which the probe of its loop
\* condition answers, the answer is online, and the item posted is the head
\* of a non-empty outbox; it awaits that probe only after hasOutbox() was
\* true, and after a POST it probes again before the next one.
C31_FreshProbe ==
    [][\A f \in FlushIds :
        /\ (fl'[f].pc = "posting" /\ fl'[f] # fl[f]) =>
                /\ fl[f].pc = "loopProbe"
                /\ fl[f].probed = "none"
                /\ fl'[f].probed = "online"
                /\ hasOutbox(outbox)
                /\ fl'[f].next = Head(outbox)
        /\ (fl'[f].pc = "loopProbe" /\ fl'[f] # fl[f]) =>
                /\ fl[f].pc \in {"probe0", "posting"}
                /\ hasOutbox(outbox')]_vars

\* the second delivery attempt of one cycle, after a second probe
C31_Witness ==
    \E f \in FlushIds :
        /\ fl[f].pc = "posting"
        /\ fl[f].anySent
        /\ fl[f].probed = "online"

\* the delivery attempt failed: the fetch was rejected, the response was not
\* ok, or the endpoint accepted no mail (its redirect carries the error flag)
DeliveryFailed(r) == r.res # "ok" \/ ~r.mailed

\* the cycle in slot f goes on to another round of its loop
GoesOn(f) == fl'[f].pc \in {"loopProbe", "posting"}

\* C32: a flush cycle stops at its first failed delivery, and a flush invoked
\* with an empty Outbox makes no request.  When a delivery attempt of a cycle
\* fails the cycle does not go on to another round, and no invocation that
\* found the Outbox empty when it was called starts a POST.
C32_StopsAtFailure ==
    [][\A f \in FlushIds :
        /\ \A r \in FetchTable[ItemFormData(fl[f].next)] :
                (fl[f].pc = "posting" /\ DeliveryFailed(r) /\ FlushPosted(f, r))
                    => ~GoesOn(f)
        /\ (fl'[f].pc = "posting" /\ fl'[f] # fl[f]) => ~fl[f].empty0]_vars

\* what the code does keep: a cycle goes on only after a response with res.ok
\* (a rejected fetch and a response that is not ok both end it), and an
\* invocation whose first probe finds the Outbox empty ends without a POST
StopsAtNotOk ==
    [][\A f \in FlushIds :
        /\ \A r \in FetchTable[ItemFormData(fl[f].next)] :
                (fl[f].pc = "posting" /\ r.res # "ok" /\ FlushPosted(f, r))
                    => ~GoesOn(f)
        /\ (fl[f].pc = "probe0" /\ fl'[f] # fl[f] /\ ~hasOutbox(outbox))
                => ~GoesOn(f)]_vars

\* the two ways the claim fails, one part each
C32_FailedDeliveryGoesOn ==
    [][\A f \in FlushIds : \A r \in FetchTable[ItemFormData(fl[f].next)] :
            (fl[f].pc = "posting" /\ DeliveryFailed(r) /\ FlushPosted(f, r))
                => ~GoesOn(f)]_vars
C32_EmptyAtCallNoRequest ==
    [][\A f \in FlushIds :
            (fl'[f].pc = "posting" /\ fl'[f] # fl[f]) => ~fl[f].empty0]_vars

\* the active worker was sent a request of the connectivity probe
ProbeFetched == sw.seen /\ sw.req \in {ProbeRequest(u) : u \in ProbeUrls}

\* C33: the service worker leaves the connectivity probe to the network.  A
\* request of the probe is answered by the network or fails with it, never
\* with a cached or synthesized response, so a probe made while the network
\* is unreachable gets no response and isOnline returns false.
C33_ProbeReachesNetwork ==
    ProbeFetched => resp.kind \in {"network", "failed", "browser"}

\* what holds for the older worker: it answers a probe from the network only
ProbeReachesNetworkV1 ==
    (ProbeFetched /\ worker.script = "part_000")
        => resp.kind \in {"network", "failed"}

\* the endpoint accepts the item when the provider does
Deliverable(item) ==
    \E r \in FetchTable[ItemFormData(item)] : r.res = "ok" /\ r.mailed

\* the item with this id waits in the outbox and the endpoint would accept it
ValidQueued(i) ==
    \E k \in 1..Len(outbox) : outbox[k].id = i /\ Deliverable(outbox[k])

\* C34: no head-of-line starvation.  Once every probe reports online and the
\* endpoint accepts every valid submission, each valid item of the outbox is
\* eventually delivered, whatever is queued ahead of it.
C34_NoStarvation ==
    \A i \in 1..2 : (env = "good" /\ ValidQueued(i)) ~> (i \in mailed)

\* what holds: with nothing but valid items queued or in flight the outbox
\* is delivered
AllValid ==
    /\ \A k \in 1..Len(outbox) : Deliverable(outbox[k])
    /\ \A f \in FlushIds : fl[f].pc = "posting" => Deliverable(fl[f].next)
ValidQueueDelivered ==
    \A i \in 1..2 : (env = "good" /\ AllValid /\ ValidQueued(i)) ~> (i \in mailed)

\* a store holds a response that is not ok
ErrorCached ==
    \E n \in CacheNames, k \in CacheKeys : caches[n].entries[k] = "error"

\* C35: the fetch listener caches only ok responses to GET requests.  A
\* response is written for a navigation only when its path is the root and it
\* is ok, for a static asset only when it is ok, and never by the default
\* branch; no store ever holds a response that is not ok.
C35_CachesOnlyOk ==
    /\ ~ErrorCached
    /\ (sw.seen /\ resp.put) =>
            /\ sw.req.method = "GET"
            /\ sw.branch \in {"navigate", "asset", "swr"}
            /\ sw.branch = "navigate" => sw.req.path = RootPath
            /\ caches[CacheOf(worker.script)].entries[sw.req.path]
                    \in {"fetched", "refreshed"}

\* a 404 was answered and not written, after an earlier response was
C35_Witness ==
    /\ sw.seen
    /\ resp.status = "404"
    /\ ~resp.put
    /\ \E k \in CacheKeys :
            caches[CacheOf(worker.script)].entries[k] \in {"fetched", "refreshed"}

\* a flush cycle that delivered something ends: lines 634-647 run
FlushSignals ==
    \E f \in FlushIds :
        /\ fl[f].pc \in {"loopProbe", "posting"}
        /\ fl'[f].pc = "idle"
        /\ timers' = timers + 1

\* C36: after a flush cycle that delivered an item the banner shows the
\* success text.  In the step in which flush sets sent=1 and compact=1 the
\* banner is shown and its message for the new query string is the success
\* message, whatever other flags the query string still carries.
C36_FlushShowsSuccess ==
    [][FlushSignals =>
            /\ {"sent", "compact"} \subseteq url'
            /\ Shown(SearchOf(url'))
            /\ Message(SearchOf(url')) = "sent"]_vars

\* what holds: the success text is shown when no flag that ranks above it
\* (error, queued, already) is left in the query string
FlushShowsSuccessAlone ==
    [][(FlushSignals /\ url' \cap {"error", "queued", "already"} = {}) =>
            /\ {"sent", "compact"} \subseteq url'
            /\ showCompact(SearchOf(url'))
            /\ Message(SearchOf(url')) = "sent"]_vars

====
